---- MODULE Spec2Model ----
(***************************************************************************)
(* Model of src/elliptic_curve.py: the geometry generators EllipticCurve   *)
(* and EllipticCurveWithFill (interval finder on a 2000-point auxiliary    *)
(* grid, branch resampling, clamped square root) and their restyling       *)
(* methods.                                                                *)
(*                                                                         *)
(* Numbers.  The source computes in floating point; the model computes the *)
(* same quantities exactly, as rationals with fixed denominators:          *)
(*   a, b           integers over CoefScale          (a = -1    is -10)    *)
(*   x_min, x_max   integers over XScale             (x = -2.5  is -2500)  *)
(*   x_test[i]      integers over AuxDen  = XScale * (AuxPoints - 1)       *)
(*   interval ends  integers over IntDen  = 2 * AuxDen                     *)
(*   branch x       integers over PtDen(n) = IntDen * (n - 1)              *)
(*   f(x), y^2      7-limb integers over CoefScale * d^3, d the            *)
(*                  denominator of x                                       *)
(*   y              its sign and its square (Sqrt below)                   *)
(*   opacities      stroke: integers over OpScale; fill: over OpScale^2    *)
(* Every numerator of an x value must stay below 2^30.                     *)
(*                                                                         *)
(* Rounding.  The source takes two decisions on float64 values: the sign   *)
(* of f at an auxiliary sample (valid = y_vals >= 0) and the width test    *)
(* x_end - x_start < 0.01.  Where the exact value is away from the         *)
(* threshold the rounded value decides the same way and the model decides  *)
(* exactly.  Where the exact value sits on the threshold (f is 0 up to     *)
(* the rounding error of its evaluation, the width is 0.01) the outcome    *)
(* depends on the rounding of the operands: f(-3) for a = -9.1, b = -0.3   *)
(* computes as -2.8e-15, 0.11 - 0.1 as 0.00999...95.  The model does not   *)
(* reproduce float64; env holds, for every such decision the run has      *)
(* taken, how it fell, and every definition that takes such a decision     *)
(* has a first parameter fp, the decisions under which it is computed: a   *)
(* value of env.                                                           *)
(*                                                                         *)
(* Framework.  The classes derive from manim's VGroup and VMobject, whose  *)
(* code is not part of the source; env also holds the one behaviour of the *)
(* base initialiser on which construction depends (see                     *)
(* EllipticCurveWithFillInit).  A decision is taken by the call that meets *)
(* it first and stands for the rest of the run.                            *)
(***************************************************************************)
EXTENDS Integers, Sequences, FiniteSets, TLC

VARIABLES curves, ret, last, scene, frame, env

vars == <<curves, ret, last, scene, frame, env>>

(***************************************************************************)
(* Scales of the exact representation and bounds of the model.             *)
(***************************************************************************)
CoefScale == 10^1
XScale == 10^3
OpScale == 10^2
TolInv == 10^6

MaxNumPoints == 3
MaxCurves == 2
MaxFactorTerm == 30

\* the float64 evaluation of _f differs from f by less than 1 / RoundOffInv
\* for |x| <= 40 and |a|, |b| <= 10, the inputs of the model
RoundOffInv == 10^9

(***************************************************************************)
(* Program constants.                                                      *)
(***************************************************************************)
AuxPoints == 2000
MinWidthInv == 100

AuxDen == XScale * (AuxPoints - 1)
IntDen == 2 * AuxDen
PtDen(n) == IntDen * (n - 1)

(***************************************************************************)
(* Exact integers wider than the machine word: 7 limbs in base 2^15, least *)
(* significant first; limbs 1..6 are in 0..Base-1 and limb 7 carries the   *)
(* sign (floor form), so a value is negative exactly when limb 7 is.       *)
(***************************************************************************)
Base == 2^15

Zero == <<0, 0, 0, 0, 0, 0, 0>>

Carry7(c) ==
    LET t1 == c[1]
        t2 == c[2] + (t1 \div Base)
        t3 == c[3] + (t2 \div Base)
        t4 == c[4] + (t3 \div Base)
        t5 == c[5] + (t4 \div Base)
        t6 == c[6] + (t5 \div Base)
        t7 == c[7] + (t6 \div Base)
    IN <<t1 % Base, t2 % Base, t3 % Base, t4 % Base, t5 % Base, t6 % Base, t7>>

FromInt(n) == Carry7(<<n, 0, 0, 0, 0, 0, 0>>)

\* u * n for u >= 0 and 0 <= n < 2^30
MulInt(u, n) ==
    LET n0 == n % Base
        n1 == n \div Base
    IN Carry7(<<u[1] * n0,
                u[2] * n0 + u[1] * n1,
                u[3] * n0 + u[2] * n1,
                u[4] * n0 + u[3] * n1,
                u[5] * n0 + u[4] * n1,
                u[6] * n0 + u[5] * n1,
                u[7] * n0 + u[6] * n1>>)

\* p*u + q*v + r*w for small integers p, q, r
Lin3(p, u, q, v, r, w) ==
    Carry7(<<p * u[1] + q * v[1] + r * w[1],
             p * u[2] + q * v[2] + r * w[2],
             p * u[3] + q * v[3] + r * w[3],
             p * u[4] + q * v[4] + r * w[4],
             p * u[5] + q * v[5] + r * w[5],
             p * u[6] + q * v[6] + r * w[6],
             p * u[7] + q * v[7] + r * w[7]>>)

IsNeg(u) == u[7] < 0

Abs(n) == IF n < 0 THEN -n ELSE n

Sgn(n) == IF n < 0 THEN -1 ELSE IF n = 0 THEN 0 ELSE 1

\* u < v
Less(u, v) == IsNeg(Lin3(1, u, -1, v, 0, Zero))

\* |u|
AbsBig(u) == IF IsNeg(u) THEN Lin3(-1, u, 0, Zero, 0, Zero) ELSE u

\* the square and the cube of a denominator d
Powers(d) ==
    LET d2 == MulInt(FromInt(d), d)
    IN [d2 |-> d2, d3 |-> MulInt(d2, d)]

(***************************************************************************)
(* _f: x^3 + a*x + b at x = n/d, as the numerator of f over                *)
(* CoefScale * d^3:  CoefScale*n^3 + a*n*d^2 + b*d^3; den is Powers(d).    *)
(***************************************************************************)
F(a, b, n, den) ==
    LET m == Abs(n)
        s == Sgn(n)
        m2 == MulInt(FromInt(m), m)
    IN Lin3(s * CoefScale, MulInt(m2, m), s * a, MulInt(den.d2, m), b, den.d3)

(***************************************************************************)
(* numpy helpers.                                                          *)
(***************************************************************************)
\* np.linspace(start, stop, n)[k], k in 0..n-1, as a numerator over
\* (n - 1) times the denominator of start and stop
Linspace(start, stop, n, k) == (n - 1) * start + k * (stop - start)

\* Maximum0 without the clamp
MaximumNoClamp(q) == q

\* np.maximum(q, 0)
Maximum0(q) == IF IsNeg(q) THEN Zero ELSE q

\* np.sqrt(q): the non-negative root, kept as its sign and its square; the
\* root of a negative number is nan
Sqrt(q) ==
    IF IsNeg(q) THEN [nan |-> TRUE, sign |-> 0, sq |-> Zero]
    ELSE [nan |-> FALSE, sign |-> IF q = Zero THEN 0 ELSE 1, sq |-> q]

\* unary minus on a root
Neg(y) == [nan |-> y.nan, sign |-> -y.sign, sq |-> y.sq]

\* the elements of a set of integers in increasing order (np.where yields
\* indices in increasing order)
RECURSIVE Ascending(_)
Ascending(S) ==
    IF S = {} THEN <<>>
    ELSE LET m == CHOOSE i \in S : \A j \in S : i <= j
         IN <<m>> \o Ascending(S \ {m})

\* seq[::-1]
Reverse(seq) == [k \in 1..Len(seq) |-> seq[Len(seq) + 1 - k]]

(***************************************************************************)
(* _find_intervals (the same code in both classes).                        *)
(***************************************************************************)
\* x_test[i], i in 0..AuxPoints-1, over AuxDen
XTest(x_min, x_max, i) == Linspace(x_min, x_max, AuxPoints, i)

AuxPowers == Powers(AuxDen)

\* |y| < 1 / RoundOffInv for a numerator y of f over CoefScale * AuxDen^3:
\* the value is 0 up to the rounding error of its float64 evaluation
NearZero(y) ==
    /\ SubSeq(y, 4, 7) \in {<<0, 0, 0, 0>>, <<Base - 1, Base - 1, Base - 1, -1>>}
    /\ Less(MulInt(AbsBig(y), RoundOffInv), Lin3(CoefScale, AuxPowers.d3, 0, Zero, 0, Zero))

\* the float64 evaluation of _f at x_test[i] involves no rounding: the sample
\* is x_min or x_max itself (np.linspace returns its ends as given) and
\* either it is 0, so that f is b, or it and a and b are whole numbers
ExactlyComputed(a, b, x_min, x_max, i) ==
    /\ i \in {0, AuxPoints - 1}
    /\ LET x == IF i = 0 THEN x_min ELSE x_max
       IN \/ x = 0
          \/ x % XScale = 0 /\ a % CoefScale = 0 /\ b % CoefScale = 0

\* the sign of y_vals[i] is decided by rounding
SignRounded(a, b, x_min, x_max, i) ==
    /\ NearZero(F(a, b, XTest(x_min, x_max, i), AuxPowers))
    /\ ~ExactlyComputed(a, b, x_min, x_max, i)

\* Valid with y_vals > 0 for y_vals >= 0
ValidStrict(fp, a, b, x_min, x_max, i) ==
    LET y == F(a, b, XTest(x_min, x_max, i), AuxPowers)
    IN ~IsNeg(y) /\ y # Zero

\* valid[i]: y_vals[i] >= 0, on the float64 value of y_vals[i]
Valid(fp, a, b, x_min, x_max, i) ==
    LET y == F(a, b, XTest(x_min, x_max, i), AuxPowers)
    IN IF NearZero(y) /\ ~ExactlyComputed(a, b, x_min, x_max, i)
       THEN <<a, b, x_min, x_max, i>> \notin fp.negative
       ELSE ~IsNeg(y)

\* Transitions stopping at the first sign change
TransitionsFirstOnly(fp, a, b, x_min, x_max) ==
    LET valid == {i \in 0..(AuxPoints - 1) : Valid(fp, a, b, x_min, x_max, i)}
        all == Ascending({i \in 0..(AuxPoints - 2) : (i \in valid) # (i + 1 \in valid)})
    IN IF all = <<>> THEN all ELSE <<all[1]>>

\* np.where(np.diff(valid.astype(int)) != 0)[0], valid as the set of the
\* indices i with valid[i]
Transitions(fp, a, b, x_min, x_max) ==
    LET valid == {i \in 0..(AuxPoints - 1) : Valid(fp, a, b, x_min, x_max, i)}
    IN Ascending({i \in 0..(AuxPoints - 2) : (i \in valid) # (i + 1 \in valid)})

\* XTransition taking the sample left of the sign change for the boundary
XTransitionLeft(x_min, x_max, idx) == 2 * XTest(x_min, x_max, idx)

\* (x_test[idx] + x_test[idx + 1]) / 2, over IntDen
XTransition(x_min, x_max, idx) == XTest(x_min, x_max, idx) + XTest(x_min, x_max, idx + 1)

\* self.x_min, self.x_max over IntDen
AtIntDen(x) == 2 * (AuxPoints - 1) * x

\* IntervalLoop closing every interval at x_max
RECURSIVE IntervalLoopEndAtMax(_, _, _, _, _, _, _)
IntervalLoopEndAtMax(x_min, x_max, ts, k, in_valid, start, intervals) ==
    IF k > Len(ts)
    THEN IF in_valid /\ start # <<>>
         THEN Append(intervals, <<start[1], AtIntDen(x_max)>>)
         ELSE intervals
    ELSE LET x_transition == XTransition(x_min, x_max, ts[k])
         IN IF in_valid
            THEN IntervalLoopEndAtMax(x_min, x_max, ts, k + 1, FALSE, <<>>,
                                      Append(intervals, <<start[1], AtIntDen(x_max)>>))
            ELSE IntervalLoopEndAtMax(x_min, x_max, ts, k + 1, TRUE, <<x_transition>>,
                                      intervals)

\* the loop over transitions and the closing test; start is <<>> for None
RECURSIVE IntervalLoop(_, _, _, _, _, _, _)
IntervalLoop(x_min, x_max, ts, k, in_valid, start, intervals) ==
    IF k > Len(ts)
    THEN IF in_valid /\ start # <<>>
         THEN Append(intervals, <<start[1], AtIntDen(x_max)>>)
         ELSE intervals
    ELSE LET x_transition == XTransition(x_min, x_max, ts[k])
         IN IF in_valid
            THEN IntervalLoop(x_min, x_max, ts, k + 1, FALSE, <<>>,
                              Append(intervals, <<start[1], x_transition>>))
            ELSE IntervalLoop(x_min, x_max, ts, k + 1, TRUE, <<x_transition>>,
                              intervals)

\* FindIntervals taking the first sample for valid without looking
FindIntervalsAssumeValid(fp, a, b, x_min, x_max) ==
    IntervalLoop(x_min, x_max, Transitions(fp, a, b, x_min, x_max), 1, TRUE,
                 <<AtIntDen(x_min)>>, <<>>)

\* FindIntervals without the closing test: an interval still open after the
\* last transition is dropped
FindIntervalsNoClosing(fp, a, b, x_min, x_max) ==
    LET in_valid == Valid(fp, a, b, x_min, x_max, 0)
        found == IntervalLoop(x_min, x_max, Transitions(fp, a, b, x_min, x_max), 1,
                              in_valid,
                              IF in_valid THEN <<AtIntDen(x_min)>> ELSE <<>>, <<>>)
    IN IF found # <<>> /\ found[Len(found)][2] = AtIntDen(x_max)
       THEN SubSeq(found, 1, Len(found) - 1)
       ELSE found

FindIntervals(fp, a, b, x_min, x_max) ==
    LET in_valid == Valid(fp, a, b, x_min, x_max, 0)
    IN IntervalLoop(x_min, x_max, Transitions(fp, a, b, x_min, x_max), 1, in_valid,
                    IF in_valid THEN <<AtIntDen(x_min)>> ELSE <<>>, <<>>)

(***************************************************************************)
(* _create_branch.  A point is [x, y, z]: x over PtDen(num_points), y a    *)
(* root whose square is over CoefScale * PtDen(num_points)^3.              *)
(***************************************************************************)
\* XVals one step off: the samples k = 1..n of the grid instead of 0..n-1
XValsOffByOne(x_start, x_end, n) == [k \in 1..n |-> Linspace(x_start, x_end, n, k)]

XVals(x_start, x_end, n) == [k \in 1..n |-> Linspace(x_start, x_end, n, k - 1)]

\* np.sqrt(np.maximum(self._f(x_vals), 0))
YVals(a, b, x_start, x_end, n) ==
    LET den == Powers(PtDen(n))
    IN [k \in 1..n |->
           Sqrt(Maximum0(F(a, b, Linspace(x_start, x_end, n, k - 1), den)))]

UpperPoints(a, b, x_start, x_end, n) ==
    LET x_vals == XVals(x_start, x_end, n)
        y_vals == YVals(a, b, x_start, x_end, n)
    IN [k \in 1..n |-> [x |-> x_vals[k], y |-> y_vals[k], z |-> 0]]

\* LowerPoints in descending x, as the filled variant orders them
LowerPointsReversed(a, b, x_start, x_end, n) ==
    LET x_vals == XVals(x_start, x_end, n)
        y_vals == YVals(a, b, x_start, x_end, n)
    IN [k \in 1..n |-> [x |-> x_vals[n + 1 - k], y |-> Neg(y_vals[n + 1 - k]), z |-> 0]]

LowerPoints(a, b, x_start, x_end, n) ==
    LET x_vals == XVals(x_start, x_end, n)
        y_vals == YVals(a, b, x_start, x_end, n)
    IN [k \in 1..n |-> [x |-> x_vals[k], y |-> Neg(y_vals[k]), z |-> 0]]

\* VMobject(color=..., stroke_width=...) with the given anchor points
VMobject(points, color, fill_color, fill_opacity, stroke_width) ==
    [points |-> points,
     stroke_color |-> color, stroke_opacity |-> OpScale, stroke_width |-> stroke_width,
     fill_color |-> fill_color, fill_opacity |-> fill_opacity]

\* EllipticCurve._create_branch: VGroup(upper_branch, lower_branch)
CreateBranch(self, x_start, x_end) ==
    <<VMobject(UpperPoints(self.a, self.b, x_start, x_end, self.num_points),
               self.curve_color, self.curve_color, 0, self.curve_stroke_width),
      VMobject(LowerPoints(self.a, self.b, x_start, x_end, self.num_points),
               self.curve_color, self.curve_color, 0, self.curve_stroke_width)>>

\* CreateBranchWithFill with the lower points left in ascending order
CreateBranchWithFillNoReverse(self, x_start, x_end) ==
    VMobject(UpperPoints(self.a, self.b, x_start, x_end, self.num_points)
               \o LowerPoints(self.a, self.b, x_start, x_end, self.num_points),
             self.curve_color, self.curve_fill_color,
             OpScale * self.base_fill_opacity, self.curve_stroke_width)

\* EllipticCurveWithFill._create_branch: one VMobject over
\* np.vstack([upper_points, lower_points]), the lower points reversed
CreateBranchWithFill(self, x_start, x_end) ==
    VMobject(UpperPoints(self.a, self.b, x_start, x_end, self.num_points)
               \o Reverse(LowerPoints(self.a, self.b, x_start, x_end, self.num_points)),
             self.curve_color, self.curve_fill_color,
             OpScale * self.base_fill_opacity, self.curve_stroke_width)

(***************************************************************************)
(* _create_curve: one branch per interval at least 0.01 wide.              *)
(***************************************************************************)
\* TooNarrow with the threshold 0.1
TooNarrowTenth(fp, x_start, x_end) == x_end - x_start <= (10 * IntDen - 1) \div MinWidthInv

\* x_end - x_start < 0.01, both over IntDen, on the float64 difference: a
\* width of 0.01 exactly is decided by rounding
TooNarrow(fp, x_start, x_end) ==
    IF x_end - x_start = IntDen \div MinWidthInv
    THEN <<x_start, x_end>> \in fp.narrow
    ELSE x_end - x_start <= (IntDen - 1) \div MinWidthInv

Surviving(fp, intervals) == SelectSeq(intervals, LAMBDA iv : ~TooNarrow(fp, iv[1], iv[2]))

\* CreateCurve without the width test
CreateCurveNoFilter(fp, self) ==
    LET kept == FindIntervals(fp, self.a, self.b, self.x_min, self.x_max)
    IN [k \in 1..Len(kept) |-> CreateBranch(self, kept[k][1], kept[k][2])]

\* CreateCurve joining all intervals into one pair of paths
CreateCurveConnected(fp, self) ==
    LET kept == Surviving(fp, FindIntervals(fp, self.a, self.b, self.x_min, self.x_max))
        all == [k \in 1..Len(kept) |-> CreateBranch(self, kept[k][1], kept[k][2])]
    IN IF Len(all) < 2 THEN all
       ELSE <<<<[all[1][1] EXCEPT !.points = all[1][1].points \o all[2][1].points],
                [all[1][2] EXCEPT !.points = all[1][2].points \o all[2][2].points]>>>>

CreateCurve(fp, self) ==
    LET kept == Surviving(fp, FindIntervals(fp, self.a, self.b, self.x_min, self.x_max))
    IN [k \in 1..Len(kept) |-> CreateBranch(self, kept[k][1], kept[k][2])]

\* CreateCurveWithFill keeping only the widest interval
CreateCurveLargestOnly(fp, self) ==
    LET kept == Surviving(fp, FindIntervals(fp, self.a, self.b, self.x_min, self.x_max))
        big == CHOOSE k \in 1..Len(kept) :
                   \A j \in 1..Len(kept) : kept[j][2] - kept[j][1] <= kept[k][2] - kept[k][1]
    IN IF kept = <<>> THEN <<>>
       ELSE <<CreateBranchWithFill(self, kept[big][1], kept[big][2])>>

\* CreateCurveWithFill without the width test
CreateCurveWithFillNoFilter(fp, self) ==
    LET kept == FindIntervals(fp, self.a, self.b, self.x_min, self.x_max)
    IN [k \in 1..Len(kept) |-> CreateBranchWithFill(self, kept[k][1], kept[k][2])]

CreateCurveWithFill(fp, self) ==
    LET kept == Surviving(fp, FindIntervals(fp, self.a, self.b, self.x_min, self.x_max))
    IN [k \in 1..Len(kept) |-> CreateBranchWithFill(self, kept[k][1], kept[k][2])]

(***************************************************************************)
(* Constructors.                                                           *)
(***************************************************************************)
DefaultStrokeWidth == 3
DefaultFillOpacity == 30

\* EllipticCurve.__init__.  The points of the new curve are where
\* _create_curve put them: nothing has scaled the curve (factor 1 / 1) or
\* moved it (see Scale, MoveTo and Shift)
EllipticCurveInit(fp, a, b, x_min, x_max, num_points, color, stroke_width) ==
    LET self == [cls |-> "EllipticCurve", a |-> a, b |-> b,
                 x_min |-> x_min, x_max |-> x_max, num_points |-> num_points,
                 curve_color |-> color, curve_stroke_width |-> stroke_width]
    IN [cls |-> self.cls, a |-> a, b |-> b,
        x_min |-> x_min, x_max |-> x_max, num_points |-> num_points,
        curve_color |-> color, curve_stroke_width |-> stroke_width,
        submobjects |-> CreateCurve(fp, self), placement |-> [factor |-> <<1, 1>>, at |-> <<>>, shift |-> <<0, 0>>]]

\* a constructor call raised instead of returning: made is [raised |-> name]
IsException(made) == "raised" \in DOMAIN made

\* EllipticCurveWithFill.__init__ (fill_color=None: fill_color or color).
\* super().__init__(**kwargs) runs the framework's initialiser, which styles
\* the new object through self.set_fill and self.set_stroke, here the
\* overrides of this class, on a still empty submobjects list.  A framework
\* that also calls self.set_stroke(..., background=True), as manim's
\* VMobject.init_colors does through set_background_stroke, passes the
\* override a keyword it does not take: the constructor raises TypeError
\* before any attribute is set.
EllipticCurveWithFillInit(fp, a, b, x_min, x_max, num_points, color, fill_opacity, stroke_width) ==
    LET self == [cls |-> "EllipticCurveWithFill", a |-> a, b |-> b,
                 x_min |-> x_min, x_max |-> x_max, num_points |-> num_points,
                 curve_color |-> color, curve_fill_color |-> color,
                 base_fill_opacity |-> fill_opacity,
                 curve_stroke_width |-> stroke_width]
    IN IF fp.background = "passed"
       THEN [raised |-> "TypeError"]
       ELSE [cls |-> self.cls, a |-> a, b |-> b,
             x_min |-> x_min, x_max |-> x_max, num_points |-> num_points,
             curve_color |-> color, curve_fill_color |-> color,
             base_fill_opacity |-> fill_opacity,
             curve_stroke_width |-> stroke_width,
             submobjects |-> CreateCurveWithFill(fp, self), placement |-> [factor |-> <<1, 1>>, at |-> <<>>, shift |-> <<0, 0>>]]

\* cls(a=, b=, x_min=, x_max=, num_points=, color=, fill_opacity=,
\* stroke_width=): a keyword the call leaves out takes the default of the
\* signature, color=BLUE, stroke_width=3, fill_opacity=0.3
New(fp, req) ==
    LET color == IF "color" \in DOMAIN req THEN req.color ELSE "BLUE"
        stroke_width == IF "stroke_width" \in DOMAIN req THEN req.stroke_width
                        ELSE DefaultStrokeWidth
        fill_opacity == IF "fill_opacity" \in DOMAIN req THEN req.fill_opacity
                        ELSE DefaultFillOpacity
    IN IF req.cls = "EllipticCurve"
       THEN EllipticCurveInit(fp, req.a, req.b, req.x_min, req.x_max,
                              req.num_points, color, stroke_width)
       ELSE EllipticCurveWithFillInit(fp, req.a, req.b, req.x_min, req.x_max,
                                      req.num_points, color, fill_opacity,
                                      stroke_width)

(***************************************************************************)
(* Restyling methods.                                                      *)
(***************************************************************************)
\* SetOpacity going through VMobject.set_opacity, which sets the fill too
SetOpacityAlsoFill(self, opacity) ==
    [self EXCEPT !.submobjects =
        [g \in DOMAIN self.submobjects |->
            [k \in DOMAIN self.submobjects[g] |->
                [self.submobjects[g][k] EXCEPT !.stroke_opacity = opacity,
                                               !.fill_opacity = OpScale * opacity]]]]

\* EllipticCurve.set_opacity
SetOpacity(self, opacity) ==
    [self EXCEPT !.submobjects =
        [g \in DOMAIN self.submobjects |->
            [k \in DOMAIN self.submobjects[g] |->
                [self.submobjects[g][k] EXCEPT !.stroke_opacity = opacity]]]]

\* EllipticCurve.set_color
SetColor(self, color) ==
    [self EXCEPT !.curve_color = color,
                 !.submobjects =
        [g \in DOMAIN self.submobjects |->
            [k \in DOMAIN self.submobjects[g] |->
                [self.submobjects[g][k] EXCEPT !.stroke_color = color]]]]

\* SetOpacityWithFill scaling the current fill opacity of the branch instead
\* of the constructor's
SetOpacityWithFillCurrent(self, opacity) ==
    [self EXCEPT !.submobjects =
        [g \in DOMAIN self.submobjects |->
            [self.submobjects[g] EXCEPT
                !.stroke_opacity = opacity,
                !.fill_opacity = opacity * (self.submobjects[g].fill_opacity \div OpScale)]]]

\* EllipticCurveWithFill.set_opacity
SetOpacityWithFill(self, opacity) ==
    [self EXCEPT !.submobjects =
        [g \in DOMAIN self.submobjects |->
            [self.submobjects[g] EXCEPT !.stroke_opacity = opacity,
                                        !.fill_opacity = opacity * self.base_fill_opacity]]]

\* SetColorWithFill going through VMobject.set_color, which recolours the
\* fill too
SetColorWithFillAlsoFill(self, color) ==
    [self EXCEPT !.curve_color = color,
                 !.submobjects =
        [g \in DOMAIN self.submobjects |->
            [self.submobjects[g] EXCEPT !.stroke_color = color,
                                        !.fill_color = color]]]

\* EllipticCurveWithFill.set_color
SetColorWithFill(self, color) ==
    [self EXCEPT !.curve_color = color,
                 !.submobjects =
        [g \in DOMAIN self.submobjects |->
            [self.submobjects[g] EXCEPT !.stroke_color = color]]]

\* EllipticCurveWithFill.set_fill; an argument is <<>> for None and <<v>>
\* for a value; opacity is over OpScale
SetFill(self, color, opacity) ==
    [self EXCEPT !.submobjects =
        [g \in DOMAIN self.submobjects |->
            [self.submobjects[g] EXCEPT
                !.fill_color = IF color = <<>> THEN @ ELSE color[1],
                !.fill_opacity = IF opacity = <<>> THEN @ ELSE OpScale * opacity[1]]]]

\* VMobject.set_stroke, which EllipticCurve inherits through VGroup: it
\* restyles every member of the family, here the two paths of every group
InheritedSetStroke(self, color, width, opacity) ==
    [self EXCEPT !.submobjects =
        [g \in DOMAIN self.submobjects |->
            [k \in DOMAIN self.submobjects[g] |->
                [self.submobjects[g][k] EXCEPT
                    !.stroke_color = IF color = <<>> THEN @ ELSE color[1],
                    !.stroke_width = IF width = <<>> THEN @ ELSE width[1],
                    !.stroke_opacity = IF opacity = <<>> THEN @ ELSE opacity[1]]]]]

\* EllipticCurveWithFill.set_stroke
SetStroke(self, color, width, opacity) ==
    [self EXCEPT !.submobjects =
        [g \in DOMAIN self.submobjects |->
            [self.submobjects[g] EXCEPT
                !.stroke_color = IF color = <<>> THEN @ ELSE color[1],
                !.stroke_width = IF width = <<>> THEN @ ELSE width[1],
                !.stroke_opacity = IF opacity = <<>> THEN @ ELSE opacity[1]]]]

(***************************************************************************)
(* preset_curve: (a, b) over CoefScale.                                    *)
(***************************************************************************)
presets ==
    [secp256k1 |-> <<0, 7 * CoefScale>>,
     simple |-> <<-1 * CoefScale, 1 * CoefScale>>,
     smooth |-> <<-2 * CoefScale, 2 * CoefScale>>]

\* preset_curve with presets.get(name): None, here <<>>, for an unknown name
PresetCurveNoDefault(name) ==
    IF name \in DOMAIN presets THEN presets[name] ELSE <<>>

\* preset_curve falling back to the 'smooth' tuple
PresetCurveDefaultSmooth(name) ==
    IF name \in DOMAIN presets THEN presets[name]
    ELSE <<-2 * CoefScale, 2 * CoefScale>>

\* presets.get(name, (-1, 1))
PresetCurve(name) ==
    IF name \in DOMAIN presets THEN presets[name]
    ELSE <<-1 * CoefScale, 1 * CoefScale>>

(***************************************************************************)
(* The scenes' use of a curve (degree.py, kernels.py): get_curve_paths and *)
(* the placement of points on the paths.  A path is named by the pair      *)
(* <<group, k>> of its place in the curve (<<g>> for a region); the result *)
(* of a placement is the exception it raised, "" for none, and the picks   *)
(* [path, prop] handed to point_from_proportion, prop as <<num, den>>.     *)
(***************************************************************************)
\* curve.family_members_with_points(): the members holding points, in
\* family order
RECURSIVE FamilyMembersWithPoints(_, _)
FamilyMembersWithPoints(c, g) ==
    IF g > Len(c.submobjects) THEN <<>>
    ELSE (IF c.cls = "EllipticCurve"
          THEN SelectSeq(<<<<g, 1>>, <<g, 2>>>>,
                         LAMBDA m : Len(c.submobjects[m[1]][m[2]].points) > 0)
          ELSE IF Len(c.submobjects[g].points) > 0 THEN <<<<g>>>> ELSE <<>>)
         \o FamilyMembersWithPoints(c, g + 1)

\* get_curve_paths: the submobjects that hold points themselves (a group of
\* EllipticCurve holds none), else the family members with points
GetCurvePaths(c) ==
    LET paths == IF c.cls = "EllipticCurve" THEN <<>>
                 ELSE SelectSeq([g \in DOMAIN c.submobjects |-> <<g>>],
                                LAMBDA m : Len(c.submobjects[m[1]].points) > 0)
    IN IF paths = <<>> THEN FamilyMembersWithPoints(c, 1) ELSE paths

Min(m, n) == IF m < n THEN m ELSE n

Raised(exception) == [raised |-> exception, picks |-> <<>>]

\* paths[index] as Python indexes a list: from the end for a negative
\* index, IndexError outside the list; the indices are 0-based
Subscript(paths, index) ==
    IF index >= Len(paths) \/ index < -Len(paths) THEN <<>>
    ELSE IF index < 0 THEN <<paths[Len(paths) + index + 1]>>
    ELSE <<paths[index + 1]>>

\* the picks of a list of (branch index, prop), each through
\* paths[min(branch, num_paths - 1)].point_from_proportion(prop)
RECURSIVE PlacePoints(_, _, _)
PlacePoints(paths, wanted, done) ==
    IF wanted = <<>> THEN [raised |-> "", picks |-> done]
    ELSE LET path == Subscript(paths, Min(Head(wanted)[1], Len(paths) - 1))
         IN IF path = <<>> THEN Raised("IndexError")
            ELSE PlacePoints(paths, Tail(wanted),
                             Append(done, [path |-> path[1], prop |-> Head(wanted)[2]]))

\* Degree.construct, the kernel points of one degree example:
\* branch = j % num_paths for j in range(deg), prop = 0.1 + j * 0.8 / deg
DegreeKernelDots(e1, deg) ==
    LET e1_paths == GetCurvePaths(e1)
        num_paths == Len(e1_paths)
    IN IF num_paths = 0 THEN Raised("ZeroDivisionError")
       ELSE PlacePoints(e1_paths,
                        [k \in 1..deg |-> <<(k - 1) % num_paths,
                                            <<deg + 8 * (k - 1), 10 * deg>>>>],
                        <<>>)

\* Kernels.construct, the points P1..P5 and O on e1: point_samples uses
\* 1 % num_e1_paths for P4 and P5
KernelsPointSamples(e1) ==
    LET e1_paths == GetCurvePaths(e1)
        num_e1_paths == Len(e1_paths)
    IN IF num_e1_paths = 0 THEN Raised("ZeroDivisionError")
       ELSE PlacePoints(e1_paths,
                        <<<<0, <<15, 100>>>>, <<0, <<40, 100>>>>, <<0, <<65, 100>>>>,
                          <<1 % num_e1_paths, <<25, 100>>>>,
                          <<1 % num_e1_paths, <<55, 100>>>>,
                          <<0, <<90, 100>>>>>>,
                        <<>>)

\* Kernels.construct: e2_paths[0].point_from_proportion(0.90)
KernelsIdentityPos(e2) ==
    LET e2_paths == GetCurvePaths(e2)
        path == Subscript(e2_paths, 0)
    IN IF path = <<>> THEN Raised("IndexError")
       ELSE [raised |-> "", picks |-> <<[path |-> path[1], prop |-> <<90, 100>>]>>]

(***************************************************************************)
(* Placement.  A scene scales and moves the curves it builds, as in        *)
(* e1.scale(0.4).move_to(LEFT * 4) and e1.scale(0.7).shift(LEFT * 4).  The *)
(* three are methods of the framework's Mobject, which the two classes     *)
(* inherit unchanged: scale(k) takes every point p of every path to        *)
(* c + k (p - c), c being the centre of the bounding box of the curve's    *)
(* points, move_to(pos) shifts every point by pos - c, and shift(v) by v.  *)
(* So the centre stays under scale, is pos after move_to and moves by v    *)
(* under shift.  The points lists stay as _create_curve made them, and     *)
(* self.placement holds what the three methods have done to them since:    *)
(* factor, the product of the scale factors as <<numerator, denominator>>, *)
(* at, <<>> until the first move_to and <<pos>> after it, and shift, the   *)
(* sum of the shifts since the last move_to; pos and shift are <<x, y>>    *)
(* over XScale.  The point p of a list stands at                           *)
(* get_center() + factor * (p - OwnCenter), see Located.  A curve without  *)
(* a branch has no point to scale or to move.                              *)
(***************************************************************************)
\* get_center() of the points as _create_curve made them, x and y as
\* <<numerator, denominator>>: the middle of the least and the greatest x
\* of all paths, over PtDen, and 0, every lower point mirroring an upper one
OwnCenter(self) ==
    LET paths == UNION {IF self.cls = "EllipticCurve"
                        THEN {self.submobjects[g][1], self.submobjects[g][2]}
                        ELSE {self.submobjects[g]} : g \in DOMAIN self.submobjects}
        xs == UNION {{path.points[n].x : n \in DOMAIN path.points} : path \in paths}
        lo == CHOOSE x \in xs : \A u \in xs : x <= u
        hi == CHOOSE x \in xs : \A u \in xs : u <= x
    IN IF xs = {} THEN [x |-> <<0, 1>>, y |-> <<0, 1>>]
       ELSE [x |-> <<lo + hi, 2 * PtDen(self.num_points)>>, y |-> <<0, 1>>]

\* where the point p of a points list stands: at
\* (about.x + shift.x + factor * x, about.y + shift.y + factor * y),
\* get_center() being about + shift, x a fraction and y a root
Located(self, p) ==
    [about |-> IF self.placement.at = <<>> THEN OwnCenter(self)
               ELSE [x |-> <<self.placement.at[1][1], XScale>>,
                     y |-> <<self.placement.at[1][2], XScale>>],
     shift |-> [x |-> <<self.placement.shift[1], XScale>>,
                y |-> <<self.placement.shift[2], XScale>>],
     factor |-> self.placement.factor,
     x |-> <<2 * p.x - OwnCenter(self).x[1], 2 * PtDen(self.num_points)>>,
     y |-> p.y]

\* the greatest common divisor of two positive numbers
RECURSIVE Gcd(_, _)
Gcd(m, n) == IF n = 0 THEN m ELSE Gcd(n, m % n)

\* self.scale(k), k = <<numerator, denominator>>; the factor is kept in
\* lowest terms
Scale(self, k) ==
    IF self.submobjects = <<>> THEN self
    ELSE [self EXCEPT !.placement.factor =
            <<(@[1] * k[1]) \div Gcd(@[1] * k[1], @[2] * k[2]),
              (@[2] * k[2]) \div Gcd(@[1] * k[1], @[2] * k[2])>>]

\* self.move_to(pos), pos = <<x, y>> over XScale
MoveTo(self, pos) ==
    IF self.submobjects = <<>> THEN self
    ELSE [self EXCEPT !.placement.at = <<pos>>, !.placement.shift = <<0, 0>>]

\* self.shift(vector), vector = <<x, y>> over XScale
Shift(self, vector) ==
    IF self.submobjects = <<>> THEN self
    ELSE [self EXCEPT !.placement.shift = <<@[1] + vector[1], @[2] + vector[2]>>]

\* a chain of method calls on one curve, e.scale(k).move_to(pos),
\* e.scale(k).shift(vector) or e.animate.set_color(c).scale(k), applied
\* from left to right; a call is <<method, argument>>.  What a chain after
\* e.animate does to e is what the same chain does on e itself, once the
\* animation has played
RECURSIVE Chained(_, _)
Chained(self, calls) ==
    IF calls = <<>> THEN self
    ELSE Chained(CASE calls[1][1] = "scale" -> Scale(self, calls[1][2])
                   [] calls[1][1] = "move_to" -> MoveTo(self, calls[1][2])
                   [] calls[1][1] = "shift" -> Shift(self, calls[1][2])
                   [] calls[1][1] = "set_color" ->
                        IF self.cls = "EllipticCurve"
                        THEN SetColor(self, calls[1][2])
                        ELSE SetColorWithFill(self, calls[1][2]),
                 Tail(calls))

(***************************************************************************)
(* Inputs.                                                                 *)
(***************************************************************************)
\* (a, b) over CoefScale: (-1, 1), (-4, 1), (0, -1), (-1, 0), (-1, 0.6)
Coefs == {<<-10, 10>>, <<-40, 10>>, <<0, -10>>, <<-10, 0>>, <<-10, 6>>}

\* (x_min, x_max) over XScale: the default (-3, 3), (-2.5, 2.5), (-2, 2), a
\* range whose auxiliary grid step exceeds 0.01, a range narrower than 0.01,
\* and (0, 1.005), which ends less than 0.01 above the root of x^3 - 1
Ranges ==
    {<<-3000, 3000>>, <<-2500, 2500>>, <<-2000, 2000>>, <<0, 40000>>, <<0, 5>>,
     <<0, 1005>>}

\* (a, b, x_min, x_max) on which rounding decides: a = -9.1, b = -0.3 on
\* (-3, -2), where f(x_min) = 0, and a = -1, b = 1 on (0.1, 0.11), a range
\* 0.01 wide on which f > 0
Params ==
    {<<ab[1], ab[2], r[1], r[2]>> : ab \in Coefs, r \in Ranges}
        \cup {<<-91, -3, -3000, -2000>>, <<-10, 10, 100, 110>>}

Requests ==
    {[cls |-> c, a |-> p[1], b |-> p[2], x_min |-> p[3], x_max |-> p[4],
      num_points |-> n] :
        c \in {"EllipticCurve", "EllipticCurveWithFill"}, p \in Params, n \in 2..MaxNumPoints}

\* what a scene does to build a curve: the constructor call, then the
\* placing calls on what it returned.
\*   e1 = EllipticCurve(a=-1, b=0.6, color=CURVE_COLOR, stroke_width=4)
\*   e1.scale(0.4).move_to(LEFT * 4)                         (degree.py)
\*   big_e1 = EllipticCurveWithFill(a=-1, b=1, color=CURVE_COLOR,
\*                                  fill_opacity=0.3, stroke_width=2)
\*   big_e1.scale(0.3).move_to(LEFT * 4)                     (isogeny_graph.py)
\*   e1 = EllipticCurveWithFill(a=-1, b=1, color=CURVE_COLOR,
\*                              fill_opacity=0.3, stroke_width=3)
\*   e1.scale(0.7).shift(LEFT * 4)                           (isogeny_graph.py)
\* CURVE_COLOR is BLUE_D.  The scenes leave num_points at 200; the model
\* builds two points per path.
SceneStatements ==
    {[new |-> [cls |-> "EllipticCurve", a |-> -10, b |-> 6, x_min |-> -3000,
               x_max |-> 3000, num_points |-> 2, color |-> "BLUE_D",
               stroke_width |-> 4],
      calls |-> <<<<"scale", <<2, 5>>>>, <<"move_to", <<-4000, 0>>>>>>],
     [new |-> [cls |-> "EllipticCurveWithFill", a |-> -10, b |-> 10,
               x_min |-> -3000, x_max |-> 3000, num_points |-> 2,
               color |-> "BLUE_D", fill_opacity |-> 30, stroke_width |-> 2],
      calls |-> <<<<"scale", <<3, 10>>>>, <<"move_to", <<-4000, 0>>>>>>],
     [new |-> [cls |-> "EllipticCurveWithFill", a |-> -10, b |-> 10,
               x_min |-> -3000, x_max |-> 3000, num_points |-> 2,
               color |-> "BLUE_D", fill_opacity |-> 30, stroke_width |-> 3],
      calls |-> <<<<"scale", <<7, 10>>>>, <<"shift", <<-4000, 0>>>>>>]}

\* the vectors by which a scene shifts the group of the curves it has built:
\* graph_group.shift(DOWN * 0.5) (isogeny_graph.py) and
\* maze_group.shift(UP * 0.3) (maze_metaphor.py), <<x, y>> over XScale
GroupShifts == {<<0, -500>>, <<0, 300>>}

\* the chains a scene plays on a curve it built and placed earlier:
\*   start_node.animate.set_color(GREEN_C).scale(1.5)
\*                                     (isogeny_graph.py, maze_metaphor.py)
\*   node.animate.set_color(CURVE_COLOR).scale(1 / 1.5)   (maze_metaphor.py)
\*   e1.animate.scale(0.7).move_to(LEFT * 5 + UP * 1)           (kernels.py)
SceneAnimations ==
    {<<<<"set_color", "GREEN_C">>, <<"scale", <<3, 2>>>>>>,
     <<<<"set_color", "BLUE_D">>, <<"scale", <<2, 3>>>>>>,
     <<<<"scale", <<7, 10>>>>, <<"move_to", <<-5000, 1000>>>>>>}

Colors == {"BLUE", "RED"}

(***************************************************************************)
(* The generator as a state machine.  curves holds the objects built so    *)
(* far; ret holds what the last call of _find_intervals returned, as       *)
(* <<index of the curve, intervals>>, and <<>> before any call.  last is   *)
(* the call a script made last, with its arguments and what it returned     *)
(* or raised, for the scripts below that record it; NoCall before any.      *)
(***************************************************************************)
NoCall == [call |-> "", arg |-> <<>>, result |-> <<>>]

(***************************************************************************)
(* scene is the position of a graph scene's construct() in its script and  *)
(* the locals it has built so far; frame is the activation of              *)
(* generate_valid_spherical_coords.  Both are idle until a script starts.  *)
(***************************************************************************)
NoScene == [name |-> "", pc |-> "idle", k |-> 0, edges |-> {}, i |-> 0,
            at |-> <<>>, played |-> <<>>, raised |-> ""]

NoFrame == [pc |-> "idle", attempt |-> 0, theta |-> 0, phi |-> 0,
            fallback |-> FALSE]

(***************************************************************************)
(* env, the decisions the run leaves to rounding and to the framework, as  *)
(* far as the run has taken them:                                          *)
(*   negative     the samples <<a, b, x_min, x_max, i>>, among those whose *)
(*                sign rounding decides, at which y_vals[i] computed < 0   *)
(*   nonnegative  those at which it computed >= 0                          *)
(*   narrow       the intervals <<x_start, x_end>>, among those 0.01 wide, *)
(*                whose width computed < 0.01                              *)
(*   wide         those whose width computed >= 0.01                       *)
(*   background   "passed" if the framework's initialiser calls            *)
(*                self.set_stroke(..., background=True), "omitted" if it   *)
(*                does not, "open" until an initialiser has run on an      *)
(*                EllipticCurveWithFill                                    *)
(* The same operands round the same way and the framework stays the same   *)
(* throughout a run: a constructor call takes the decisions still open     *)
(* that bear on it and keeps those already taken.                          *)
(***************************************************************************)
\* t is x_min, x_max or a transition midpoint of the range: a value an
\* interval of _find_intervals can start or end at
IsBoundary(x_min, x_max, t) ==
    LET off == t - AtIntDen(x_min)
        q == off \div (x_max - x_min)
    IN \/ t = AtIntDen(x_min)
       \/ t = AtIntDen(x_max)
       \/ off % (x_max - x_min) = 0 /\ q % 2 = 1 /\ q > 0 /\ q < 2 * (AuxPoints - 1)

\* the intervals 0.01 wide that _find_intervals can return on the ranges of
\* the requests
ThresholdWidths ==
    UNION {{<<t, t + IntDen \div MinWidthInv>> :
               t \in {u \in {AtIntDen(p[3])} \cup
                               {XTransition(p[3], p[4], idx) : idx \in 0..(AuxPoints - 2)} :
                         IsBoundary(p[3], p[4], u + IntDen \div MinWidthInv)}} :
           p \in Params}

\* the samples of the requests whose sign rounding decides
RoundedSamples ==
    {<<q[1][1], q[1][2], q[1][3], q[1][4], q[2]>> :
        q \in {t \in Params \X (0..(AuxPoints - 1)) :
                  SignRounded(t[1][1], t[1][2], t[1][3], t[1][4], t[2])}}

\* what the framework's initialiser can turn out to do on an
\* EllipticCurveWithFill
Initialiser ==
    IF env.background = "open" THEN {"passed", "omitted"} ELSE {env.background}

\* env after the constructor call req, one value for every way the
\* decisions it takes can fall.  A call that returns has decided the signs
\* at its own samples and the widths of the intervals of its own range; an
\* EllipticCurveWithFill that the initialiser makes raise has decided
\* nothing else
Settled(req) ==
    LET signs == {k \in RoundedSamples :
                    <<k[1], k[2], k[3], k[4]>>
                        = <<req.a, req.b, req.x_min, req.x_max>>}
                     \ (env.negative \cup env.nonnegative)
        widths == {w \in ThresholdWidths :
                     /\ IsBoundary(req.x_min, req.x_max, w[1])
                     /\ IsBoundary(req.x_min, req.x_max, w[2])}
                      \ (env.narrow \cup env.wide)
        returns == IF req.cls = "EllipticCurve" THEN {env.background}
                   ELSE Initialiser \ {"passed"}
        raises == IF req.cls = "EllipticCurve" THEN {}
                  ELSE Initialiser \cap {"passed"}
    IN {[negative |-> env.negative \cup n,
         nonnegative |-> env.nonnegative \cup (signs \ n),
         narrow |-> env.narrow \cup w,
         wide |-> env.wide \cup (widths \ w),
         background |-> bg] :
            n \in SUBSET signs, w \in SUBSET widths, bg \in returns}
       \cup {[env EXCEPT !.background = bg] : bg \in raises}

Init ==
    /\ curves = <<>> /\ ret = <<>> /\ last = NoCall
    /\ scene = NoScene /\ frame = NoFrame
    /\ env = [negative |-> {}, nonnegative |-> {}, narrow |-> {}, wide |-> {},
              background |-> "open"]

\* a constructor call has raised: the script has ended
ConstructorRaised == last.call = "EllipticCurveWithFill"

\* one constructor call: it takes the decisions still open that bear on it
\* and builds under them
Construct ==
    /\ curves = <<>>
    /\ ~ConstructorRaised
    /\ \E req \in Requests :
         \E settled \in Settled(req) :
            /\ env' = settled
            /\ \E made \in {New(settled, req)} :
                 IF IsException(made)
                 THEN /\ curves' = curves
                      /\ last' = [call |-> req.cls, arg |-> req, result |-> made]
                 ELSE /\ curves' = <<made>>
                      /\ last' = last
    /\ UNCHANGED <<ret, scene, frame>>

\* curves[i]._find_intervals()
CallFindIntervals ==
    \E i \in DOMAIN curves :
        /\ ret = <<>>
        /\ ret' = <<i, FindIntervals(env, curves[i].a, curves[i].b,
                                     curves[i].x_min, curves[i].x_max)>>
        /\ UNCHANGED <<curves, last, scene, frame, env>>

Next == Construct \/ CallFindIntervals

Spec == Init /\ [][Next]_vars

(***************************************************************************)
(* A scene: several curves are built and placed, restyled, scaled and     *)
(* moved again in any order, and shifted together once.                    *)
(***************************************************************************)
\* e = cls(...); e.scale(k).move_to(pos) or e.scale(k).shift(vector): the
\* scene ends if the constructor raises
SceneConstruct ==
    /\ Len(curves) < MaxCurves
    /\ ~ConstructorRaised
    /\ \E st \in SceneStatements :
         \E settled \in Settled(st.new) :
            /\ env' = settled
            /\ \E made \in {New(settled, st.new)} :
                 IF IsException(made)
                 THEN /\ curves' = curves
                      /\ last' = [call |-> st.new.cls, arg |-> st.new,
                                  result |-> made]
                 ELSE /\ curves' = Append(curves, Chained(made, st.calls))
                      /\ last' = last
    /\ UNCHANGED <<ret, scene, frame>>

\* group = VGroup(...); group.shift(vector): shift reaches every path of
\* every curve of the group, that is every curve built so far.  A scene
\* does it once, after the loop that built the curves
SceneGroupShift ==
    /\ curves # <<>>
    /\ last = NoCall
    /\ \E vector \in GroupShifts :
         /\ curves' = [i \in DOMAIN curves |-> Shift(curves[i], vector)]
         /\ last' = [call |-> "shift", arg |-> vector, result |-> <<>>]
    /\ UNCHANGED <<ret, scene, frame, env>>

\* self.play(e.animate.set_color(c).scale(k), ...) and the like, on a curve
\* built before: when the animation has played, e is as the chain leaves
\* it.  The terms of the factor are capped at MaxFactorTerm
SceneAnimate ==
    \E i \in DOMAIN curves, calls \in SceneAnimations :
        \E played \in {Chained(curves[i], calls)} :
            /\ played.placement.factor[1] <= MaxFactorTerm
            /\ played.placement.factor[2] <= MaxFactorTerm
            /\ curves' = [curves EXCEPT ![i] = played]
            /\ UNCHANGED <<ret, last, scene, frame, env>>

CallSetOpacity ==
    \E i \in DOMAIN curves, o \in {50} :
        /\ curves' = [curves EXCEPT ![i] =
                        IF curves[i].cls = "EllipticCurve"
                        THEN SetOpacity(curves[i], o)
                        ELSE SetOpacityWithFill(curves[i], o)]
        /\ UNCHANGED <<ret, last, scene, frame, env>>

CallSetColor ==
    \E i \in DOMAIN curves, c \in Colors :
        /\ curves' = [curves EXCEPT ![i] =
                        IF curves[i].cls = "EllipticCurve"
                        THEN SetColor(curves[i], c)
                        ELSE SetColorWithFill(curves[i], c)]
        /\ UNCHANGED <<ret, last, scene, frame, env>>

SceneNext ==
    SceneConstruct \/ SceneGroupShift \/ SceneAnimate \/ CallSetOpacity \/ CallSetColor

SceneSpec == Init /\ [][SceneNext]_vars

(***************************************************************************)
(* Restyling one curve, as the scenes do with set_opacity, set_color,      *)
(* set_fill and set_stroke; last records each call.  Opacities are over    *)
(* OpScale; None is <<>>.                                                  *)
(***************************************************************************)
StyleOpacities == {0, 50, 100}
FillArgs == {<<<<>>, <<60>>>>, <<<<"RED">>, <<40>>>>, <<<<"RED">>, <<>>>>}
StrokeArgs == {<<<<"RED">>, <<>>, <<>>>>, <<<<>>, <<4>>, <<>>>>, <<<<>>, <<>>, <<30>>>>}

StyleConstruct ==
    /\ curves = <<>>
    /\ ~ConstructorRaised
    /\ \E req \in {r \in Requests :
                    /\ r.num_points = 2
                    /\ <<r.a, r.b, r.x_min, r.x_max>>
                          \in {<<-10, 6, -3000, 3000>>, <<-40, 10, -3000, 3000>>}} :
         \E settled \in Settled(req) :
            /\ env' = settled
            /\ \E made \in {New(settled, req)} :
                 IF IsException(made)
                 THEN /\ curves' = curves
                      /\ last' = [call |-> req.cls, arg |-> req, result |-> made]
                 ELSE /\ curves' = <<made>>
                      /\ last' = last
    /\ UNCHANGED <<ret, scene, frame>>

StyleSetOpacity ==
    \E i \in DOMAIN curves, o \in StyleOpacities :
        /\ curves' = [curves EXCEPT ![i] =
                        IF curves[i].cls = "EllipticCurve"
                        THEN SetOpacity(curves[i], o)
                        ELSE SetOpacityWithFill(curves[i], o)]
        /\ last' = [call |-> "set_opacity", arg |-> <<i, o>>, result |-> <<>>]
        /\ UNCHANGED <<ret, scene, frame, env>>

StyleSetColor ==
    \E i \in DOMAIN curves, c \in Colors :
        /\ curves' = [curves EXCEPT ![i] =
                        IF curves[i].cls = "EllipticCurve"
                        THEN SetColor(curves[i], c)
                        ELSE SetColorWithFill(curves[i], c)]
        /\ last' = [call |-> "set_color", arg |-> <<i, c>>, result |-> <<>>]
        /\ UNCHANGED <<ret, scene, frame, env>>

StyleSetFill ==
    \E i \in DOMAIN curves, args \in FillArgs :
        /\ curves[i].cls = "EllipticCurveWithFill"
        /\ curves' = [curves EXCEPT ![i] = SetFill(curves[i], args[1], args[2])]
        /\ last' = [call |-> "set_fill", arg |-> <<i, args>>, result |-> <<>>]
        /\ UNCHANGED <<ret, scene, frame, env>>

StyleSetStroke ==
    \E i \in DOMAIN curves, args \in StrokeArgs :
        /\ curves' = [curves EXCEPT ![i] =
                        IF curves[i].cls = "EllipticCurve"
                        THEN InheritedSetStroke(curves[i], args[1], args[2], args[3])
                        ELSE SetStroke(curves[i], args[1], args[2], args[3])]
        /\ last' = [call |-> "set_stroke", arg |-> <<i, args>>, result |-> <<>>]
        /\ UNCHANGED <<ret, scene, frame, env>>

StyleNext ==
    StyleConstruct \/ StyleSetOpacity \/ StyleSetColor \/ StyleSetFill \/ StyleSetStroke

StyleSpec == Init /\ [][StyleNext]_vars

(***************************************************************************)
(* The stylized icons, EllipticCurveIcon and EllipticCurveIconWithFill:    *)
(* one VMobject each; its 300 points are fixed by shape and play no part   *)
(* in restyling.  Opacities as above: the arguments and the stroke over    *)
(* OpScale, the fill over OpScale^2.                                       *)
(***************************************************************************)
IconClasses == {"EllipticCurveIcon", "EllipticCurveIconWithFill"}

\* EllipticCurveIcon.__init__ / EllipticCurveIconWithFill.__init__
\* (fill_color=None: fill_color or color)
IconInit(cls, color, fill_opacity, stroke_width) ==
    [cls |-> cls, base_fill_opacity |-> fill_opacity,
     stroke_color |-> color, stroke_opacity |-> OpScale, stroke_width |-> stroke_width,
     fill_color |-> color, fill_opacity |-> OpScale * fill_opacity]

\* EllipticCurveIcon.set_opacity without the test of base_fill_opacity
IconSetOpacityNoTest(self, opacity) ==
    [self EXCEPT !.stroke_opacity = opacity,
                 !.fill_opacity = opacity * self.base_fill_opacity]

\* EllipticCurveIcon.set_opacity
IconSetOpacity(self, opacity) ==
    IF self.base_fill_opacity > 0
    THEN [self EXCEPT !.stroke_opacity = opacity,
                      !.fill_opacity = opacity * self.base_fill_opacity]
    ELSE [self EXCEPT !.stroke_opacity = opacity]

\* EllipticCurveIconWithFill.set_opacity
IconWithFillSetOpacity(self, opacity) ==
    [self EXCEPT !.stroke_opacity = opacity,
                 !.fill_opacity = opacity * self.base_fill_opacity]

\* VMobject.set_fill(color, opacity) on an icon, as path_hardness.py calls it
IconSetFill(self, color, opacity) ==
    [self EXCEPT !.fill_color = IF color = <<>> THEN @ ELSE color[1],
                 !.fill_opacity = IF opacity = <<>> THEN @ ELSE OpScale * opacity[1]]

\* VMobject.set_color(color) on an icon: set_fill(color), then
\* set_stroke(color)
IconSetColor(self, color) ==
    [IconSetFill(self, <<color>>, <<>>) EXCEPT !.stroke_color = color]

\* fill_opacity of the constructors: 0.0 (path_hardness.py), the 0.3 default
\* of EllipticCurveIconWithFill, and 0.5
IconFillOpacities == {0, DefaultFillOpacity, 50}

\* set_opacity(0.15) and set_opacity(1) of path_hardness.py, and 0.5
IconOpacities == {15, 50, 100}

IconConstruct ==
    \E cls \in IconClasses, fill_opacity \in IconFillOpacities :
        /\ curves = <<>>
        /\ curves' = <<IconInit(cls, "BLUE", fill_opacity, 2)>>
        /\ last' = [call |-> "__init__", arg |-> <<1, fill_opacity>>, result |-> <<>>]
        /\ UNCHANGED <<ret, scene, frame, env>>

\* n.animate.set_opacity(o)
CallIconSetOpacity ==
    \E i \in DOMAIN curves, o \in IconOpacities :
        /\ curves' = [curves EXCEPT ![i] =
                        IF curves[i].cls = "EllipticCurveIcon"
                        THEN IconSetOpacity(curves[i], o)
                        ELSE IconWithFillSetOpacity(curves[i], o)]
        /\ last' = [call |-> "set_opacity", arg |-> <<i, o>>, result |-> <<>>]
        /\ UNCHANGED <<ret, scene, frame, env>>

\* e1.animate.set_color(c).set_fill(c, opacity=0.4).scale(1.4); scale moves
\* the points, which an icon's record does not hold
IconHighlight ==
    \E i \in DOMAIN curves, c \in {"GREEN_C", "RED_C"} :
        /\ curves' = [curves EXCEPT ![i] =
                        IconSetFill(IconSetColor(curves[i], c), <<c>>, <<40>>)]
        /\ last' = [call |-> "set_fill", arg |-> <<i, <<<<c>>, <<40>>>>>>, result |-> <<>>]
        /\ UNCHANGED <<ret, scene, frame, env>>

\* next_node.animate.set_color(color).set_opacity(1), color in path_colors
IconReveal ==
    \E i \in DOMAIN curves, c \in {"GREEN_C", "TEAL_C", "BLUE_C", "PURPLE_C"} :
        /\ curves' = [curves EXCEPT ![i] =
                        IF curves[i].cls = "EllipticCurveIcon"
                        THEN IconSetOpacity(IconSetColor(curves[i], c), OpScale)
                        ELSE IconWithFillSetOpacity(IconSetColor(curves[i], c), OpScale)]
        /\ last' = [call |-> "set_opacity", arg |-> <<i, OpScale>>, result |-> <<>>]
        /\ UNCHANGED <<ret, scene, frame, env>>

IconNext == IconConstruct \/ CallIconSetOpacity \/ IconHighlight \/ IconReveal

IconSpec == Init /\ [][IconNext]_vars

(***************************************************************************)
(* A script: it asks preset_curve for parameters, builds a curve, takes    *)
(* its paths with get_curve_paths and places points on them as degree.py   *)
(* and kernels.py do.  The scenes build their curve from a = -1, b = 0.6   *)
(* on the default range; here the curve is any of the requests of two      *)
(* points per path on the default range or on the range narrower than      *)
(* 0.01, on which no curve has a branch.                                   *)
(***************************************************************************)
PresetNames == {"smooth", "simple", "wide", "tall", "secp256k1", "unknown"}

ScriptRequests ==
    {req \in Requests :
        /\ req.num_points = 2
        /\ <<req.x_min, req.x_max>> \in {<<-3000, 3000>>, <<0, 5>>}}


ScriptConstruct ==
    /\ curves = <<>>
    /\ ~ConstructorRaised
    /\ \E req \in ScriptRequests :
         \E settled \in Settled(req) :
            /\ env' = settled
            /\ \E made \in {New(settled, req)} :
                 IF IsException(made)
                 THEN /\ curves' = curves
                      /\ last' = [call |-> req.cls, arg |-> req, result |-> made]
                 ELSE /\ curves' = <<made>>
                      /\ last' = last
    /\ UNCHANGED <<ret, scene, frame>>

CallPresetCurve ==
    \E name \in PresetNames :
        /\ last' = [call |-> "preset_curve", arg |-> name, result |-> PresetCurve(name)]
        /\ UNCHANGED <<curves, ret, scene, frame, env>>

CallGetCurvePaths ==
    \E i \in DOMAIN curves :
        /\ last' = [call |-> "get_curve_paths", arg |-> i,
                    result |-> GetCurvePaths(curves[i])]
        /\ UNCHANGED <<curves, ret, scene, frame, env>>

PlaceDegreeKernelDots ==
    \E i \in DOMAIN curves, deg \in {2, 3, 4} :
        /\ last' = [call |-> "Degree.kernel_dots", arg |-> i,
                    result |-> DegreeKernelDots(curves[i], deg)]
        /\ UNCHANGED <<curves, ret, scene, frame, env>>

PlaceKernelsPointSamples ==
    \E i \in DOMAIN curves :
        /\ last' = [call |-> "Kernels.point_samples", arg |-> i,
                    result |-> KernelsPointSamples(curves[i])]
        /\ UNCHANGED <<curves, ret, scene, frame, env>>

PlaceKernelsIdentityPos ==
    \E i \in DOMAIN curves :
        /\ last' = [call |-> "Kernels.identity_pos", arg |-> i,
                    result |-> KernelsIdentityPos(curves[i])]
        /\ UNCHANGED <<curves, ret, scene, frame, env>>

ScriptNext ==
    \/ ScriptConstruct
    \/ CallPresetCurve
    \/ CallGetCurvePaths
    \/ PlaceDegreeKernelDots
    \/ PlaceKernelsPointSamples
    \/ PlaceKernelsIdentityPos

ScriptSpec == Init /\ [][ScriptNext]_vars

(***************************************************************************)
(* The graph scenes.  MazeMetaphor, PathFindingHardness and                *)
(* IsogenyGraphIntro each declare a graph as a literal edge list, build    *)
(* their edge objects in a loop, and then animate a literal path over      *)
(* them.  scene.edges holds the keys under which edge objects have been    *)
(* stored so far, scene.at the node the searcher (or the highlight) is on, *)
(* scene.played the <<edge key, colour>> pairs animated by the running     *)
(* loop, scene.raised the exception that ended the script, if any.         *)
(***************************************************************************)
rows == 4
cols == 6

\* the keys of MazeMetaphor's nodes dict
nodes == {<<r, c>> : r \in 0..(rows - 1), c \in 0..(cols - 1)}

edge_listNoDiagonals ==
    << <<<<0, 0>>, <<0, 1>>>>, <<<<0, 1>>, <<0, 2>>>>, <<<<0, 3>>, <<0, 4>>>>,
       <<<<0, 4>>, <<0, 5>>>>,
       <<<<1, 0>>, <<1, 1>>>>, <<<<1, 2>>, <<1, 3>>>>, <<<<1, 3>>, <<1, 4>>>>,
       <<<<1, 4>>, <<1, 5>>>>,
       <<<<2, 0>>, <<2, 1>>>>, <<<<2, 1>>, <<2, 2>>>>, <<<<2, 2>>, <<2, 3>>>>,
       <<<<2, 4>>, <<2, 5>>>>,
       <<<<3, 0>>, <<3, 1>>>>, <<<<3, 1>>, <<3, 2>>>>, <<<<3, 2>>, <<3, 3>>>>,
       <<<<3, 3>>, <<3, 4>>>>, <<<<3, 4>>, <<3, 5>>>>,
       <<<<0, 0>>, <<1, 0>>>>, <<<<1, 0>>, <<2, 0>>>>, <<<<2, 0>>, <<3, 0>>>>,
       <<<<0, 1>>, <<1, 1>>>>, <<<<2, 1>>, <<3, 1>>>>, <<<<0, 2>>, <<1, 2>>>>,
       <<<<1, 2>>, <<2, 2>>>>, <<<<1, 3>>, <<2, 3>>>>, <<<<2, 3>>, <<3, 3>>>>,
       <<<<0, 4>>, <<1, 4>>>>, <<<<2, 4>>, <<3, 4>>>>, <<<<0, 5>>, <<1, 5>>>>,
       <<<<1, 5>>, <<2, 5>>>>, <<<<2, 5>>, <<3, 5>>>> >>

edge_list ==
    << <<<<0, 0>>, <<0, 1>>>>, <<<<0, 1>>, <<0, 2>>>>, <<<<0, 3>>, <<0, 4>>>>,
       <<<<0, 4>>, <<0, 5>>>>,
       <<<<1, 0>>, <<1, 1>>>>, <<<<1, 2>>, <<1, 3>>>>, <<<<1, 3>>, <<1, 4>>>>,
       <<<<1, 4>>, <<1, 5>>>>,
       <<<<2, 0>>, <<2, 1>>>>, <<<<2, 1>>, <<2, 2>>>>, <<<<2, 2>>, <<2, 3>>>>,
       <<<<2, 4>>, <<2, 5>>>>,
       <<<<3, 0>>, <<3, 1>>>>, <<<<3, 1>>, <<3, 2>>>>, <<<<3, 2>>, <<3, 3>>>>,
       <<<<3, 3>>, <<3, 4>>>>, <<<<3, 4>>, <<3, 5>>>>,
       <<<<0, 0>>, <<1, 0>>>>, <<<<1, 0>>, <<2, 0>>>>, <<<<2, 0>>, <<3, 0>>>>,
       <<<<0, 1>>, <<1, 1>>>>, <<<<2, 1>>, <<3, 1>>>>, <<<<0, 2>>, <<1, 2>>>>,
       <<<<1, 2>>, <<2, 2>>>>, <<<<1, 3>>, <<2, 3>>>>, <<<<2, 3>>, <<3, 3>>>>,
       <<<<0, 4>>, <<1, 4>>>>, <<<<2, 4>>, <<3, 4>>>>, <<<<0, 5>>, <<1, 5>>>>,
       <<<<1, 5>>, <<2, 5>>>>, <<<<2, 5>>, <<3, 5>>>>,
       <<<<1, 1>>, <<2, 2>>>>, <<<<2, 2>>, <<3, 3>>>> >>

start_pos == <<0, 0>>
end_pos == <<3, 5>>

hard_path ==
    << <<0, 0>>, <<0, 1>>, <<0, 2>>, <<1, 2>>, <<2, 2>>, <<2, 1>>, <<3, 1>>,
       <<3, 0>>, <<2, 0>>, <<1, 0>>, <<1, 1>>, <<2, 2>>, <<2, 3>>, <<3, 3>>,
       <<3, 4>>, <<3, 5>> >>

secret_path ==
    << <<0, 0>>, <<1, 0>>, <<1, 1>>, <<2, 2>>, <<3, 3>>, <<3, 4>>, <<3, 5>> >>

\* edge_key = (curr, next_pos); if edge_key not in edges: edge_key = (next_pos, curr)
EdgeKey(edges, curr, next_pos) ==
    IF <<curr, next_pos>> \notin edges THEN <<next_pos, curr>>
    ELSE <<curr, next_pos>>

\* one iteration of a walk loop of MazeMetaphor over path in colour color:
\* the move and the recolouring are played only if the key is in edges
WalkStep(path, color) ==
    LET curr == path[scene.i + 1]
        next_pos == path[scene.i + 2]
        edge_key == EdgeKey(scene.edges, curr, next_pos)
    IN scene' = IF edge_key \in scene.edges
                THEN [scene EXCEPT !.i = @ + 1, !.at = <<next_pos>>,
                                   !.played = Append(@, <<edge_key, color>>)]
                ELSE [scene EXCEPT !.i = @ + 1]

MazeStart ==
    /\ scene = NoScene
    /\ scene' = [NoScene EXCEPT !.name = "MazeMetaphor", !.pc = "edges"]
    /\ UNCHANGED <<curves, ret, last, frame, env>>

\* for (r1, c1), (r2, c2) in edge_list: both directions are stored
MazeAddEdge ==
    /\ scene.name = "MazeMetaphor" /\ scene.pc = "edges"
    /\ scene.k < Len(edge_list)
    /\ LET e == edge_list[scene.k + 1]
       IN scene' = IF e[1] \in nodes /\ e[2] \in nodes
                   THEN [scene EXCEPT !.k = @ + 1,
                                      !.edges = @ \cup {<<e[1], e[2]>>, <<e[2], e[1]>>}]
                   ELSE [scene EXCEPT !.k = @ + 1]
    /\ UNCHANGED <<curves, ret, last, frame, env>>

\* searcher.move_to(nodes[hard_path[0]].get_center())
MazeHardBegin ==
    /\ scene.name = "MazeMetaphor" /\ scene.pc = "edges"
    /\ scene.k = Len(edge_list)
    /\ scene' = [scene EXCEPT !.pc = "hard", !.i = 0, !.at = <<hard_path[1]>>]
    /\ UNCHANGED <<curves, ret, last, frame, env>>

MazeHardStep ==
    /\ scene.name = "MazeMetaphor" /\ scene.pc = "hard"
    /\ scene.i < Len(hard_path) - 1
    /\ WalkStep(hard_path, "RED_C")
    /\ UNCHANGED <<curves, ret, last, frame, env>>

\* the hard walk is faded out, every edge goes back to GRAY, and the fast
\* searcher is placed on secret_path[0]
MazeReset ==
    /\ scene.name = "MazeMetaphor" /\ scene.pc = "hard"
    /\ scene.i = Len(hard_path) - 1
    /\ scene' = [scene EXCEPT !.pc = "secret", !.i = 0, !.played = <<>>,
                              !.at = <<secret_path[1]>>]
    /\ UNCHANGED <<curves, ret, last, frame, env>>

MazeSecretStep ==
    /\ scene.name = "MazeMetaphor" /\ scene.pc = "secret"
    /\ scene.i < Len(secret_path) - 1
    /\ WalkStep(secret_path, "GREEN_C")
    /\ UNCHANGED <<curves, ret, last, frame, env>>

MazeFinish ==
    /\ scene.name = "MazeMetaphor" /\ scene.pc = "secret"
    /\ scene.i = Len(secret_path) - 1
    /\ scene' = [scene EXCEPT !.pc = "done"]
    /\ UNCHANGED <<curves, ret, last, frame, env>>

\* PathFindingHardness
hardness_edge_pairs ==
    << <<0, 1>>, <<0, 4>>, <<0, 15>>, <<1, 2>>, <<1, 5>>, <<2, 3>>, <<2, 6>>,
       <<3, 4>>, <<3, 7>>, <<4, 8>>, <<5, 6>>, <<5, 9>>, <<5, 10>>, <<6, 7>>,
       <<6, 11>>, <<7, 8>>, <<7, 12>>, <<8, 9>>, <<8, 13>>, <<9, 10>>,
       <<9, 14>>, <<10, 11>>, <<10, 15>>, <<11, 12>>, <<12, 13>>, <<13, 14>>,
       <<14, 15>> >>

start_idx == 0
end_idx == 12

path_indicesShortcut == <<0, 4, 8, 12>>

path_indices == <<0, 4, 8, 7, 12>>

path_colors == <<"GREEN_C", "TEAL_C", "BLUE_C", "PURPLE_C">>

Max(x, y) == IF x >= y THEN x ELSE y

HardnessStart ==
    /\ scene = NoScene
    /\ scene' = [NoScene EXCEPT !.name = "PathFindingHardness", !.pc = "edges"]
    /\ UNCHANGED <<curves, ret, last, frame, env>>

\* edge_dict[(min(i, j), max(i, j))] = edge
HardnessAddEdge ==
    /\ scene.name = "PathFindingHardness" /\ scene.pc = "edges"
    /\ scene.k < Len(hardness_edge_pairs)
    /\ LET e == hardness_edge_pairs[scene.k + 1]
       IN scene' = [scene EXCEPT !.k = @ + 1,
                      !.edges = @ \cup {<<Min(e[1], e[2]), Max(e[1], e[2])>>}]
    /\ UNCHANGED <<curves, ret, last, frame, env>>

\* e1, e2 = nodes[start_idx], nodes[end_idx] are highlighted
HardnessBegin ==
    /\ scene.name = "PathFindingHardness" /\ scene.pc = "edges"
    /\ scene.k = Len(hardness_edge_pairs)
    /\ scene' = [scene EXCEPT !.pc = "path", !.i = 0, !.at = <<start_idx>>]
    /\ UNCHANGED <<curves, ret, last, frame, env>>

\* path_edges.append(edge_dict[key]): a missing key raises KeyError
HardnessLookup ==
    /\ scene.name = "PathFindingHardness" /\ scene.pc = "path"
    /\ scene.i < Len(path_indices) - 1
    /\ LET a == path_indices[scene.i + 1]
           b == path_indices[scene.i + 2]
           key == <<Min(a, b), Max(a, b)>>
       IN scene' = IF key \in scene.edges
                   THEN [scene EXCEPT !.i = @ + 1,
                                      !.played = Append(@, <<key, "GRAY">>)]
                   ELSE [scene EXCEPT !.pc = "raised", !.raised = "KeyError"]
    /\ UNCHANGED <<curves, ret, last, frame, env>>

\* the elements off the path are dimmed
HardnessDim ==
    /\ scene.name = "PathFindingHardness" /\ scene.pc = "path"
    /\ scene.i = Len(path_indices) - 1
    /\ scene' = [scene EXCEPT !.pc = "reveal", !.i = 0]
    /\ UNCHANGED <<curves, ret, last, frame, env>>

\* for i, edge in enumerate(path_edges): color = path_colors[i], which
\* raises IndexError past the end of path_colors
HardnessReveal ==
    /\ scene.name = "PathFindingHardness" /\ scene.pc = "reveal"
    /\ scene.i < Len(scene.played)
    /\ scene' = IF scene.i + 1 \in DOMAIN path_colors
                THEN [scene EXCEPT !.i = @ + 1,
                        !.at = <<path_indices[scene.i + 2]>>,
                        !.played[scene.i + 1] = <<@[1], path_colors[scene.i + 1]>>]
                ELSE [scene EXCEPT !.pc = "raised", !.raised = "IndexError"]
    /\ UNCHANGED <<curves, ret, last, frame, env>>

HardnessFinish ==
    /\ scene.name = "PathFindingHardness" /\ scene.pc = "reveal"
    /\ scene.i = Len(scene.played)
    /\ scene' = [scene EXCEPT !.pc = "done"]
    /\ UNCHANGED <<curves, ret, last, frame, env>>

\* IsogenyGraphIntro
intro_edge_pairs ==
    << <<0, 1>>, <<0, 5>>, <<0, 11>>, <<1, 2>>, <<1, 6>>, <<2, 3>>, <<2, 7>>,
       <<3, 4>>, <<3, 8>>, <<4, 5>>, <<4, 9>>, <<5, 10>>, <<6, 7>>, <<6, 11>>,
       <<7, 8>>, <<8, 9>>, <<9, 10>>, <<10, 11>> >>

\* start_node = nodes[0], end_node = nodes[8]
intro_start == 0
intro_end == 8

search_path == <<0, 1, 6, 7, 8>>

\* for e, (a, b) in zip(edges, edge_pairs): the first entry that joins
\* curr_idx and next_idx in either direction, as <<its index>>, or <<>>
FindEdge(edges, curr_idx, next_idx) ==
    LET hits == {n \in DOMAIN intro_edge_pairs :
                    /\ intro_edge_pairs[n] \in edges
                    /\ \/ intro_edge_pairs[n] = <<curr_idx, next_idx>>
                       \/ intro_edge_pairs[n] = <<next_idx, curr_idx>>}
    IN IF hits = {} THEN <<>>
       ELSE <<CHOOSE n \in hits : \A m \in hits : n <= m>>

\* the script up to the edge loop.  Its node loop builds twelve
\* EllipticCurveWithFill: where the framework's initialiser passes
\* background the first constructor call raises TypeError and the script
\* ends before edges exists.  (The nodes are not kept in curves: of the
\* graph scenes the model follows the path data and the script position.)
IntroStart ==
    /\ scene = NoScene
    /\ \E bg \in Initialiser :
         /\ env' = [env EXCEPT !.background = bg]
         /\ scene' = IF bg = "passed"
                     THEN [NoScene EXCEPT !.name = "IsogenyGraphIntro",
                                          !.pc = "raised", !.raised = "TypeError"]
                     ELSE [NoScene EXCEPT !.name = "IsogenyGraphIntro",
                                          !.pc = "edges"]
    /\ UNCHANGED <<curves, ret, last, frame>>

\* for i, j in edge_pairs: edges.add(edge)
IntroAddEdge ==
    /\ scene.name = "IsogenyGraphIntro" /\ scene.pc = "edges"
    /\ scene.k < Len(intro_edge_pairs)
    /\ scene' = [scene EXCEPT !.k = @ + 1,
                              !.edges = @ \cup {intro_edge_pairs[scene.k + 1]}]
    /\ UNCHANGED <<curves, ret, last, frame, env>>

IntroBegin ==
    /\ scene.name = "IsogenyGraphIntro" /\ scene.pc = "edges"
    /\ scene.k = Len(intro_edge_pairs)
    /\ scene' = [scene EXCEPT !.pc = "search", !.i = 0, !.at = <<intro_start>>]
    /\ UNCHANGED <<curves, ret, last, frame, env>>

\* one iteration of the search loop: the highlight is played for the first
\* matching edge, and for none if no entry matches
IntroSearchStep ==
    /\ scene.name = "IsogenyGraphIntro" /\ scene.pc = "search"
    /\ scene.i < Len(search_path) - 1
    /\ LET curr_idx == search_path[scene.i + 1]
           next_idx == search_path[scene.i + 2]
           found == FindEdge(scene.edges, curr_idx, next_idx)
       IN scene' = IF found # <<>>
                   THEN [scene EXCEPT !.i = @ + 1, !.at = <<next_idx>>,
                           !.played = Append(@, <<intro_edge_pairs[found[1]],
                                                  "HIGHLIGHT_COLOR">>)]
                   ELSE [scene EXCEPT !.i = @ + 1]
    /\ UNCHANGED <<curves, ret, last, frame, env>>

IntroFinish ==
    /\ scene.name = "IsogenyGraphIntro" /\ scene.pc = "search"
    /\ scene.i = Len(search_path) - 1
    /\ scene' = [scene EXCEPT !.pc = "done"]
    /\ UNCHANGED <<curves, ret, last, frame, env>>

GraphNext ==
    \/ MazeStart \/ MazeAddEdge \/ MazeHardBegin \/ MazeHardStep
    \/ MazeReset \/ MazeSecretStep \/ MazeFinish
    \/ HardnessStart \/ HardnessAddEdge \/ HardnessBegin \/ HardnessLookup
    \/ HardnessDim \/ HardnessReveal \/ HardnessFinish
    \/ IntroStart \/ IntroAddEdge \/ IntroBegin \/ IntroSearchStep
    \/ IntroFinish

GraphSpec == Init /\ [][GraphNext]_vars

\* a scene's construct() runs to its end: the renderer executes the script
\* statement after statement
FairGraphSpec == GraphSpec /\ WF_vars(GraphNext)

(***************************************************************************)
(* generate_valid_spherical_coords of QuaternionSphere.  Angles are whole  *)
(* multiples of PI / AngleUnit, sines and cosines are over TrigScale, so   *)
(* i, j, k are over TrigScale^2.  frame.attempt counts the iterations of   *)
(* the for loop the running call has made, frame.theta and frame.phi are   *)
(* what the call returned, frame.fallback whether the return was the one   *)
(* after the loop.                                                         *)
(***************************************************************************)
AngleUnit == 12
TrigScale == 10^4
PiScaled == 31416

PI == AngleUnit

max_attempts == 100

\* sin(n * PI / 12) for n in 0..6, rounded to four places
SinQuadrant == <<0, 2588, 5000, 7071, 8660, 9659, 10000>>

Sin(n) ==
    LET m == n % (2 * AngleUnit)
        h == AngleUnit \div 2
    IN IF m <= h THEN SinQuadrant[m + 1]
       ELSE IF m <= AngleUnit THEN SinQuadrant[AngleUnit - m + 1]
       ELSE IF m <= AngleUnit + h THEN -SinQuadrant[m - AngleUnit + 1]
       ELSE -SinQuadrant[2 * AngleUnit - m + 1]

Cos(n) == Sin(n + AngleUnit \div 2)

\* np.random.uniform(0, 2 * PI)
Thetas == 0..(2 * AngleUnit - 1)

\* np.random.uniform(0.3, PI - 0.3)
Phis ==
    {p \in 0..AngleUnit :
        /\ 3 * AngleUnit * TrigScale <= 10 * p * PiScaled
        /\ 3 * AngleUnit * TrigScale <= 10 * (AngleUnit - p) * PiScaled}

\* <<i, j, k>> = <<sin(phi)cos(theta), sin(phi)sin(theta), cos(phi)>>
Coordinates(theta, phi) ==
    <<Sin(phi) * Cos(theta), Sin(phi) * Sin(theta), Cos(phi) * TrigScale>>

\* 0.1 <= abs(val) <= 0.9
InRange(val) ==
    /\ TrigScale * TrigScale <= 10 * Abs(val)
    /\ 10 * Abs(val) <= 9 * TrigScale * TrigScale

\* all(0.1 <= abs(val) <= 0.9 for val in [i, j, k])
AllInRange(theta, phi) ==
    \A n \in 1..3 : InRange(Coordinates(theta, phi)[n])

\* the first call, for the initial position, and the six of the loop over
\* num_positions, each starting a fresh activation
CallGenerate ==
    /\ frame.pc \in {"idle", "returned"}
    /\ frame' = [NoFrame EXCEPT !.pc = "loop"]
    /\ UNCHANGED <<curves, ret, last, scene, env>>

\* one iteration of for _ in range(max_attempts)
Sample(theta, phi) ==
    /\ frame.pc = "loop"
    /\ frame.attempt < max_attempts
    /\ frame' = IF AllInRange(theta, phi)
                THEN [frame EXCEPT !.pc = "returned", !.attempt = @ + 1,
                                   !.theta = theta, !.phi = phi]
                ELSE [frame EXCEPT !.attempt = @ + 1]
    /\ UNCHANGED <<curves, ret, last, scene, env>>

\* return PI/4, PI/3 after the loop
Fallback ==
    /\ frame.pc = "loop"
    /\ frame.attempt = max_attempts
    /\ frame' = [frame EXCEPT !.pc = "returned", !.fallback = TRUE,
                              !.theta = PI \div 4, !.phi = PI \div 3]
    /\ UNCHANGED <<curves, ret, last, scene, env>>

SamplerNext ==
    \/ CallGenerate
    \/ \E theta \in Thetas, phi \in Phis : Sample(theta, phi)
    \/ Fallback

SamplerSpec == Init /\ [][SamplerNext]_vars

\* a running call keeps executing: the loop body and the return statements
\* are straight-line code without waits
FairSamplerSpec == SamplerSpec /\ WF_vars(SamplerNext)

(***************************************************************************)
(* Vocabulary of the properties below.                                     *)
(***************************************************************************)
LessEq(u, v) == ~Less(v, u)

Sub(u, v) == Lin3(1, u, -1, v, 0, Zero)

\* |p - q| <= 1/inv for numerators p, q over CoefScale * d^3, den = Powers(d)
Within(p, q, den, inv) ==
    LessEq(MulInt(AbsBig(Sub(p, q)), inv), Lin3(CoefScale, den.d3, 0, Zero, 0, Zero))

\* |p - q| <= 1e-6
WithinTol(p, q, den) == Within(p, q, den, TolInv)

\* the point sequences a curve emitted
PointSeqs(c) ==
    IF c.cls = "EllipticCurve"
    THEN {c.submobjects[g][k].points : g \in DOMAIN c.submobjects, k \in 1..2}
    ELSE {c.submobjects[g].points : g \in DOMAIN c.submobjects}

\* f at the x of an emitted point of curve c, over CoefScale * PtDen^3
FAt(c, pt) == F(c.a, c.b, pt.x, Powers(PtDen(c.num_points)))

\* the point sequence of branch g of c that starts at the interval start:
\* the upper path, or the region
Lead(c, g) ==
    IF c.cls = "EllipticCurve" THEN c.submobjects[g][1].points
    ELSE c.submobjects[g].points

\* branch g of curve c spans the interval iv (ends over IntDen)
Spans(c, g, iv) ==
    /\ Lead(c, g)[1].x = (c.num_points - 1) * iv[1]
    /\ Lead(c, g)[c.num_points].x = (c.num_points - 1) * iv[2]

Emitted(c, iv) == \E g \in DOMAIN c.submobjects : Spans(c, g, iv)

\* x_end - x_start >= 0.01 as the code computes it (MinWidthInv divides
\* IntDen): a width of exactly 0.01 reaches it unless it rounds below
MinWidthReached(iv) ==
    \/ iv[2] - iv[1] > IntDen \div MinWidthInv
    \/ iv[2] - iv[1] = IntDen \div MinWidthInv /\ iv \notin env.narrow

\* the auxiliary samples lying in the interval iv
SamplesIn(c, iv) ==
    {i \in 0..(AuxPoints - 1) :
        /\ iv[1] <= 2 * XTest(c.x_min, c.x_max, i)
        /\ 2 * XTest(c.x_min, c.x_max, i) <= iv[2]}

\* the intervals of a sequence that are at least 0.01 wide, in order
RECURSIVE Wide(_)
Wide(ivs) ==
    IF ivs = <<>> THEN <<>>
    ELSE IF MinWidthReached(Head(ivs)) THEN <<Head(ivs)>> \o Wide(Tail(ivs))
    ELSE Wide(Tail(ivs))

\* f >= 0 on the whole real range [x_min, x_max]: at both ends and, when the
\* local minimum of the cubic, x = sqrt(-a/3), lies strictly inside, there
\* too (f there is b - (2|a|/3) sqrt(|a|/3) >= 0 iff b >= 0 and
\* 27 b^2 >= 4 |a|^3)
NonNegOnRange(a, b, x_min, x_max) ==
    LET k == (-a) * XScale * XScale
        inside == /\ a < 0
                  /\ (x_min < 0 \/ x_min * x_min <= (k - 1) \div (3 * CoefScale))
                  /\ x_max > 0
                  /\ x_max * x_max > k \div (3 * CoefScale)
    IN /\ ~IsNeg(F(a, b, x_min, Powers(XScale)))
       /\ ~IsNeg(F(a, b, x_max, Powers(XScale)))
       /\ inside => (b >= 0 /\ 27 * CoefScale * b * b >= 4 * (-a) * a * a)

\* some sample of c at which f is 0 up to rounding computes negative
RoundedNegative(c) ==
    \E k \in env.negative : <<k[1], k[2], k[3], k[4]>> = <<c.a, c.b, c.x_min, c.x_max>>

\* the state after a constructor call and a call of _find_intervals on it
Called == ret # <<>>
Self == curves[ret[1]]
Intervals == ret[2]

(***************************************************************************)
(* C1.  Every emitted point carries the clamped root: y is never nan,      *)
(* y^2 = f(x) wherever f(x) >= 0, and y = 0 wherever f(x) < 0.             *)
(***************************************************************************)
C1_ClampedRoot ==
    \A i \in DOMAIN curves : \A ps \in PointSeqs(curves[i]) : \A k \in DOMAIN ps :
        LET f == FAt(curves[i], ps[k])
        IN /\ ~ps[k].y.nan
           /\ IsNeg(f) => ps[k].y.sq = Zero /\ ps[k].y.sign = 0
           /\ ~IsNeg(f) => ps[k].y.sq = f

\* C1 as stated: y^2 = f(x) within 1e-6 at every emitted point, the first
\* and the last of every interval included.
C1_Original ==
    \A i \in DOMAIN curves : \A ps \in PointSeqs(curves[i]) : \A k \in DOMAIN ps :
        WithinTol(ps[k].y.sq, FAt(curves[i], ps[k]), Powers(PtDen(curves[i].num_points)))

\* a branch whose first point was clamped (f below -1e-6 there, y = 0) and
\* whose last point has y^2 = f > 0
C1_Witness ==
    \E i \in DOMAIN curves : \E ps \in PointSeqs(curves[i]) :
        /\ IsNeg(FAt(curves[i], ps[1]))
        /\ ~WithinTol(Zero, FAt(curves[i], ps[1]), Powers(PtDen(curves[i].num_points)))
        /\ ps[1].y.sq = Zero
        /\ ps[curves[i].num_points].y.sq # Zero
        /\ ps[curves[i].num_points].y.sq = FAt(curves[i], ps[curves[i].num_points])

(***************************************************************************)
(* C2.  Every auxiliary sample lying in an emitted interval has f >= 0,    *)
(* as the code computes f.  (At the num_points x-values of a branch f can  *)
(* be negative: C2_Witness.)                                               *)
(***************************************************************************)
C2_AuxSamplesValid ==
    Called =>
        \A n \in DOMAIN Intervals :
            Emitted(Self, Intervals[n]) =>
                \A i \in SamplesIn(Self, Intervals[n]) :
                    Valid(env, Self.a, Self.b, Self.x_min, Self.x_max, i)

\* C2 as stated: f is non-negative, up to 1e-6, at every x-value sampled for
\* a branch.
C2_Original ==
    \A i \in DOMAIN curves : \A ps \in PointSeqs(curves[i]) : \A k \in DOMAIN ps :
        LET f == FAt(curves[i], ps[k])
        IN IsNeg(f) => WithinTol(f, Zero, Powers(PtDen(curves[i].num_points)))

\* an emitted interval with auxiliary samples inside it, all valid, whose
\* branch starts at an x where f is below -1e-6
C2_Witness ==
    /\ Called
    /\ \E n \in DOMAIN Intervals : \E g \in DOMAIN Self.submobjects :
        /\ Spans(Self, g, Intervals[n])
        /\ Cardinality(SamplesIn(Self, Intervals[n])) >= 2
        /\ IsNeg(FAt(Self, Lead(Self, g)[1]))
        /\ ~WithinTol(FAt(Self, Lead(Self, g)[1]), Zero, Powers(PtDen(Self.num_points)))

(***************************************************************************)
(* C3.  EllipticCurve: one group per interval at least 0.01 wide, in       *)
(* order; each group is exactly two paths of num_points points each, and   *)
(* every x of both paths lies in the group's own interval, starting at its *)
(* start and ending at its end.                                            *)
(***************************************************************************)
C3_SeparateBranches ==
    (Called /\ Self.cls = "EllipticCurve") =>
        LET kept == Wide(Intervals)
        IN /\ Len(Self.submobjects) = Len(kept)
           /\ \A g \in DOMAIN Self.submobjects :
                /\ Len(Self.submobjects[g]) = 2
                /\ Spans(Self, g, kept[g])
                /\ \A k \in 1..2 :
                     LET ps == Self.submobjects[g][k].points
                     IN /\ Len(ps) = Self.num_points
                        /\ \A j \in DOMAIN ps :
                             /\ (Self.num_points - 1) * kept[g][1] <= ps[j].x
                             /\ ps[j].x <= (Self.num_points - 1) * kept[g][2]

\* a curve with two groups, on two disjoint intervals
C3_Witness ==
    /\ Called
    /\ Self.cls = "EllipticCurve"
    /\ Len(Self.submobjects) = 2
    /\ Len(Intervals) = 2
    /\ Intervals[1][2] < Intervals[2][1]

(***************************************************************************)
(* C4.  When f >= 0 on the whole of [x_min, x_max] and no auxiliary sample  *)
(* at which f is 0 up to rounding computes negative, _find_intervals       *)
(* yields the one interval (x_min, x_max); EllipticCurve then holds        *)
(* exactly one group of two paths if x_max - x_min computes as at least    *)
(* 0.01, and nothing if it computes narrower.                              *)
(***************************************************************************)
C4_OneIntervalTwoBranches ==
    (/\ Called
     /\ Self.cls = "EllipticCurve"
     /\ NonNegOnRange(Self.a, Self.b, Self.x_min, Self.x_max)
     /\ ~RoundedNegative(Self)) =>
        /\ Intervals = <<<<AtIntDen(Self.x_min), AtIntDen(Self.x_max)>>>>
        /\ IF MinWidthReached(<<AtIntDen(Self.x_min), AtIntDen(Self.x_max)>>)
           THEN Len(Self.submobjects) = 1 /\ Len(Self.submobjects[1]) = 2
           ELSE Self.submobjects = <<>>

\* C4 as stated: for any x_min < x_max with f >= 0 on the range, one
\* interval and exactly two branches, never zero.
C4_Original ==
    (/\ Called
     /\ Self.cls = "EllipticCurve"
     /\ NonNegOnRange(Self.a, Self.b, Self.x_min, Self.x_max)) =>
        /\ Len(Intervals) = 1
        /\ Len(Self.submobjects) = 1
        /\ Len(Self.submobjects[1]) = 2

\* f >= 0 on a range at least 0.01 wide: one interval, one upper and one
\* lower path
C4_Witness ==
    /\ Called
    /\ Self.cls = "EllipticCurve"
    /\ NonNegOnRange(Self.a, Self.b, Self.x_min, Self.x_max)
    /\ MinWidthInv * (Self.x_max - Self.x_min) >= XScale
    /\ Len(Intervals) = 1
    /\ Len(Self.submobjects) = 1
    /\ Len(Self.submobjects[1]) = 2

(***************************************************************************)
(* C5.  When no auxiliary sample has f >= 0, _find_intervals returns the   *)
(* empty list and the curve has no branches.                               *)
(***************************************************************************)
NoValidSample(c) ==
    \A i \in 0..(AuxPoints - 1) : ~Valid(env, c.a, c.b, c.x_min, c.x_max, i)

C5_EmptyWhenNoValidSample ==
    (Called /\ NoValidSample(Self)) =>
        Intervals = <<>> /\ Self.submobjects = <<>>

\* a curve built over a range on which every sample has f < 0
C5_Witness ==
    /\ Called
    /\ NoValidSample(Self)
    /\ Intervals = <<>>
    /\ Self.submobjects = <<>>

(***************************************************************************)
(* C6.  An interval is discarded exactly when it is narrower than 0.01;    *)
(* the number of auxiliary samples in it is not looked at, so an interval  *)
(* holding fewer than 2 samples is emitted when it is at least 0.01 wide,  *)
(* which needs an auxiliary grid step of at least 0.01.                    *)
(***************************************************************************)
C6_DiscardedIffNarrow ==
    Called =>
        \A n \in DOMAIN Intervals :
            /\ Emitted(Self, Intervals[n]) <=> MinWidthReached(Intervals[n])
            /\ (Emitted(Self, Intervals[n])
                  /\ Cardinality(SamplesIn(Self, Intervals[n])) < 2) =>
                 MinWidthInv * (Self.x_max - Self.x_min) >= (AuxPoints - 1) * XScale

\* C6 as stated: an interval with fewer than 2 sample points, or narrower
\* than 0.01, is never emitted, whatever the x range.
C6_Original ==
    Called =>
        \A n \in DOMAIN Intervals :
            (\/ Cardinality(SamplesIn(Self, Intervals[n])) < 2
             \/ ~MinWidthReached(Intervals[n])) =>
                ~Emitted(Self, Intervals[n])

\* an interval narrower than 0.01 was found and no branch was built on it
C6_Witness ==
    /\ Called
    /\ \E n \in DOMAIN Intervals :
        /\ ~MinWidthReached(Intervals[n])
        /\ ~Emitted(Self, Intervals[n])

(***************************************************************************)
(* C7.  EllipticCurveWithFill builds one region for every interval at      *)
(* least 0.01 wide, in order, not only for the largest.                    *)
(***************************************************************************)
C7_RegionPerInterval ==
    (Called /\ Self.cls = "EllipticCurveWithFill") =>
        /\ Len(Self.submobjects) = Len(Wide(Intervals))
        /\ \A g \in DOMAIN Self.submobjects : Spans(Self, g, Wide(Intervals)[g])

\* C7 as stated: at most one filled region.
C7_Original ==
    \A i \in DOMAIN curves :
        curves[i].cls = "EllipticCurveWithFill" => Len(curves[i].submobjects) <= 1

\* a = -4, b = 1 on [-3, 3]: two regions
C7_Witness ==
    /\ Called
    /\ Self.cls = "EllipticCurveWithFill"
    /\ Self.a = -4 * CoefScale /\ Self.b = CoefScale
    /\ Self.x_min = -3 * XScale /\ Self.x_max = 3 * XScale
    /\ Len(Self.submobjects) = 2

(***************************************************************************)
(* C8.  Every region of EllipticCurveWithFill is one sequence of           *)
(* 2 * num_points points: the upper points in ascending x, then the lower  *)
(* points in descending x, point 2n+1-k mirroring point k.  Its first and  *)
(* last points have the same x and opposite y, so they coincide exactly    *)
(* when y = 0 at the interval start, that is when f <= 0 there.            *)
(***************************************************************************)
C8_UpperThenReversedLower ==
    \A i \in DOMAIN curves :
        curves[i].cls = "EllipticCurveWithFill" =>
            \A g \in DOMAIN curves[i].submobjects :
                LET ps == curves[i].submobjects[g].points
                    n == curves[i].num_points
                IN /\ Len(ps) = 2 * n
                   /\ \A k \in 1..n :
                        /\ ps[k].y.sign >= 0
                        /\ ps[n + k].y.sign <= 0
                        /\ ps[2 * n + 1 - k].x = ps[k].x
                        /\ ps[2 * n + 1 - k].y.sq = ps[k].y.sq
                        /\ ps[2 * n + 1 - k].y.sign = -ps[k].y.sign
                   /\ \A k \in 1..(n - 1) :
                        /\ ps[k].x < ps[k + 1].x
                        /\ ps[n + k].x > ps[n + k + 1].x
                   /\ (ps[1] = ps[2 * n]) <=>
                        (IsNeg(FAt(curves[i], ps[1])) \/ FAt(curves[i], ps[1]) = Zero)

\* C8 as stated: the first and the last point of every region approximately
\* coincide, read generously: a squared distance (2y)^2 of at most 1/10.
C8_Original ==
    \A i \in DOMAIN curves :
        curves[i].cls = "EllipticCurveWithFill" =>
            \A g \in DOMAIN curves[i].submobjects :
                LET ps == curves[i].submobjects[g].points
                    n == curves[i].num_points
                IN /\ Len(ps) = 2 * n
                   /\ ps[1].x = ps[2 * n].x
                   /\ Within(Lin3(4, ps[1].y.sq, 0, Zero, 0, Zero), Zero,
                             Powers(PtDen(n)), 10)

\* a region of 2 * num_points points that starts at x_min with f(x_min) > 0:
\* its first and last points are (x_min, y) and (x_min, -y), y > 0
C8_Witness ==
    \E i \in DOMAIN curves :
        /\ curves[i].cls = "EllipticCurveWithFill"
        /\ \E g \in DOMAIN curves[i].submobjects :
            LET ps == curves[i].submobjects[g].points
            IN /\ Len(ps) = 2 * curves[i].num_points
               /\ ps[1].x = (curves[i].num_points - 1) * 2 * (AuxPoints - 1) * curves[i].x_min
               /\ ps[1].y.sign = 1
               /\ ps[Len(ps)].y.sign = -1
               /\ ps[1].x = ps[Len(ps)].x

(***************************************************************************)
(* C9.  The intervals _find_intervals returns are ordered and disjoint:    *)
(* start < end in each, and each ends strictly before the next starts.     *)
(***************************************************************************)
C9_OrderedDisjoint ==
    Called =>
        \A n \in DOMAIN Intervals :
            /\ Intervals[n][1] < Intervals[n][2]
            /\ n < Len(Intervals) => Intervals[n][2] < Intervals[n + 1][1]

\* a call that returned two intervals
C9_Witness == Called /\ Len(Intervals) >= 2

(***************************************************************************)
(* The point sequences of a curve as its constructor made them, and the    *)
(* parameters that decide them.                                            *)
(***************************************************************************)
Geometry(c) ==
    IF c.cls = "EllipticCurve"
    THEN [g \in DOMAIN c.submobjects |->
             <<c.submobjects[g][1].points, c.submobjects[g][2].points>>]
    ELSE [g \in DOMAIN c.submobjects |-> <<c.submobjects[g].points>>]

SameParameters(c, d) ==
    /\ c.cls = d.cls
    /\ c.a = d.a /\ c.b = d.b
    /\ c.x_min = d.x_min /\ c.x_max = d.x_max
    /\ c.num_points = d.num_points

(***************************************************************************)
(* C11.  Construction is total and every emitted y is real: no constructor *)
(* call raises, no y is nan, no y^2 is negative, y >= 0 on every upper     *)
(* point and y <= 0 on every lower point.                                  *)
(***************************************************************************)
C11_Original ==
    /\ ~ConstructorRaised
    /\ \A i \in DOMAIN curves : \A g \in DOMAIN curves[i].submobjects :
         LET n == curves[i].num_points
             upper == Lead(curves[i], g)
             lower == IF curves[i].cls = "EllipticCurve"
                      THEN curves[i].submobjects[g][2].points
                      ELSE [k \in 1..n |-> curves[i].submobjects[g].points[n + k]]
         IN \A k \in 1..n :
              /\ ~upper[k].y.nan /\ ~lower[k].y.nan
              /\ ~IsNeg(upper[k].y.sq) /\ ~IsNeg(lower[k].y.sq)
              /\ upper[k].y.sign >= 0
              /\ lower[k].y.sign <= 0

(***************************************************************************)
(* C12.  Every interval end that is not x_min or x_max is the midpoint of  *)
(* two adjacent auxiliary samples, one with f < 0 and the other with        *)
(* f >= 0 as computed (invalid then valid at a start, valid then invalid   *)
(* at an end);                                                             *)
(* some interval starts at x_min iff the first sample has f >= 0, and some *)
(* interval ends at x_max iff the last sample has f >= 0.                  *)
(***************************************************************************)
\* the index idx whose transition midpoint is x (over IntDen), if any
TransitionIndex(c, x) ==
    ((x - AtIntDen(c.x_min)) \div (c.x_max - c.x_min) - 1) \div 2

IsMidpoint(c, x, idx) ==
    /\ idx \in 0..(AuxPoints - 2)
    /\ x = 2 * (AuxPoints - 1) * c.x_min + (2 * idx + 1) * (c.x_max - c.x_min)

ValidAt(c, i) == Valid(env, c.a, c.b, c.x_min, c.x_max, i)

C12_MidpointBoundaries ==
    Called =>
        /\ \A n \in DOMAIN Intervals :
             LET s == Intervals[n][1]
                 e == Intervals[n][2]
                 si == TransitionIndex(Self, s)
                 ei == TransitionIndex(Self, e)
             IN /\ \/ s = AtIntDen(Self.x_min)
                   \/ /\ IsMidpoint(Self, s, si)
                      /\ ~ValidAt(Self, si)
                      /\ ValidAt(Self, si + 1)
                /\ \/ e = AtIntDen(Self.x_max)
                   \/ /\ IsMidpoint(Self, e, ei)
                      /\ ValidAt(Self, ei)
                      /\ ~ValidAt(Self, ei + 1)
        /\ (\E n \in DOMAIN Intervals : Intervals[n][1] = AtIntDen(Self.x_min))
             <=> ValidAt(Self, 0)
        /\ (\E n \in DOMAIN Intervals : Intervals[n][2] = AtIntDen(Self.x_max))
             <=> ValidAt(Self, AuxPoints - 1)

\* two intervals: the first between two interior midpoints, the second from
\* an interior midpoint to x_max
C12_Witness ==
    /\ Called
    /\ Len(Intervals) = 2
    /\ ~ValidAt(Self, 0)
    /\ ValidAt(Self, AuxPoints - 1)
    /\ IsMidpoint(Self, Intervals[1][1], TransitionIndex(Self, Intervals[1][1]))
    /\ IsMidpoint(Self, Intervals[1][2], TransitionIndex(Self, Intervals[1][2]))
    /\ IsMidpoint(Self, Intervals[2][1], TransitionIndex(Self, Intervals[2][1]))
    /\ Intervals[2][2] = AtIntDen(Self.x_max)

(***************************************************************************)
(* C13.  Every path of EllipticCurve has exactly num_points points; their  *)
(* x run from the interval start to the interval end in equal, positive    *)
(* steps, and every z is 0, whatever the width of the interval.            *)
(***************************************************************************)
C13_EvenlyResampled ==
    (Called /\ Self.cls = "EllipticCurve") =>
        LET kept == Wide(Intervals)
            n == Self.num_points
        IN /\ Len(Self.submobjects) = Len(kept)
           /\ \A g \in DOMAIN Self.submobjects : \A k \in 1..2 :
                LET ps == Self.submobjects[g][k].points
                IN /\ Len(ps) = n
                   /\ ps[1].x = (n - 1) * kept[g][1]
                   /\ ps[n].x = (n - 1) * kept[g][2]
                   /\ \A j \in 1..(n - 1) :
                        /\ ps[j + 1].x - ps[j].x = kept[g][2] - kept[g][1]
                        /\ ps[j].x < ps[j + 1].x
                   /\ \A j \in 1..n : ps[j].z = 0

\* a curve of at least 3 points per path with two branches of different
\* widths
C13_Witness ==
    /\ Called
    /\ Self.cls = "EllipticCurve"
    /\ Self.num_points >= 3
    /\ Len(Self.submobjects) = 2
    /\ Len(Intervals) = 2
    /\ Intervals[1][2] - Intervals[1][1] # Intervals[2][2] - Intervals[2][1]
    /\ Len(Self.submobjects[1][1].points) = Len(Self.submobjects[2][1].points)

(***************************************************************************)
(* C14.  In every group of EllipticCurve the lower path mirrors the upper  *)
(* path: same length, and point i of the lower path is (x_i, -y_i, 0)      *)
(* where point i of the upper path is (x_i, y_i, 0).                       *)
(***************************************************************************)
C14_LowerMirrorsUpper ==
    \A i \in DOMAIN curves :
        curves[i].cls = "EllipticCurve" =>
            \A g \in DOMAIN curves[i].submobjects :
                LET upper == curves[i].submobjects[g][1].points
                    lower == curves[i].submobjects[g][2].points
                IN /\ Len(upper) = Len(lower)
                   /\ \A k \in DOMAIN upper :
                        /\ lower[k].x = upper[k].x
                        /\ lower[k].y.sq = upper[k].y.sq
                        /\ lower[k].y.sign = -upper[k].y.sign
                        /\ lower[k].y.nan = upper[k].y.nan
                        /\ upper[k].z = 0 /\ lower[k].z = 0

\* a group whose upper path has points of different x with y > 0 at the
\* last, mirrored by y < 0 on the lower path
C14_Witness ==
    \E i \in DOMAIN curves : \E g \in DOMAIN curves[i].submobjects :
        /\ curves[i].cls = "EllipticCurve"
        /\ curves[i].num_points >= 3
        /\ curves[i].submobjects[g][1].points[3].y.sign = 1
        /\ curves[i].submobjects[g][2].points[3].y.sign = -1
        /\ curves[i].submobjects[g][2].points[3].x = curves[i].submobjects[g][1].points[3].x
        /\ curves[i].submobjects[g][1].points[1].x # curves[i].submobjects[g][1].points[3].x

(***************************************************************************)
(* C15.  When f has exactly one real root r, strictly inside               *)
(* (x_min, x_max), and f(x_max) > 0, _find_intervals returns one interval: *)
(* its start is within one auxiliary grid step of r and its end is x_max.  *)
(* If the interval is at least 0.01 wide there is one branch, and its      *)
(* first upper point has y = 0 (start left of r) or y^2 = f(start) with    *)
(* the start less than half a grid step right of r; if it is narrower      *)
(* there is no branch.  a = -1, b = 1 on [-2.5, 2.5] starts between -1.326 *)
(* and -1.323; a = 0, b = -1 on [-2, 2] starts between 1 and 1.002.        *)
(***************************************************************************)
\* f over IntDen at a numerator x
FInt(c, x) == F(c.a, c.b, x, Powers(IntDen))

\* one real root (negative discriminant of the cubic, or x^3 itself), f < 0
\* at x_min and f > 0 at x_max
OneRootInside(c) ==
    /\ \/ 4 * c.a * c.a * c.a + 27 * CoefScale * c.b * c.b > 0
       \/ (c.a = 0 /\ c.b = 0)
    /\ IsNeg(FInt(c, AtIntDen(c.x_min)))
    /\ ~IsNeg(FInt(c, AtIntDen(c.x_max)))
    /\ FInt(c, AtIntDen(c.x_max)) # Zero

\* the root lies within one auxiliary grid step of x: f(x - step) <= 0 and
\* f(x + step) >= 0
NearRoot(c, x) ==
    /\ ~IsNeg(FInt(c, x + 2 * (c.x_max - c.x_min)))
    /\ \/ IsNeg(FInt(c, x - 2 * (c.x_max - c.x_min)))
       \/ FInt(c, x - 2 * (c.x_max - c.x_min)) = Zero

C15_OneRootOneInterval ==
    (Called /\ OneRootInside(Self)) =>
        /\ Len(Intervals) = 1
        /\ NearRoot(Self, Intervals[1][1])
        /\ Intervals[1][2] = AtIntDen(Self.x_max)
        /\ IF MinWidthReached(Intervals[1])
           THEN /\ Len(Self.submobjects) = 1
                /\ Spans(Self, 1, Intervals[1])
                /\ IsNeg(FInt(Self, Intervals[1][1] - (Self.x_max - Self.x_min)))
                /\ LET first == Lead(Self, 1)[1]
                   IN IF IsNeg(FAt(Self, first))
                      THEN first.y.sign = 0 /\ first.y.sq = Zero
                      ELSE first.y.sign >= 0 /\ first.y.sq = FAt(Self, first)
           ELSE Self.submobjects = <<>>
        /\ (/\ Self.a = -CoefScale /\ Self.b = CoefScale
            /\ Self.x_min = -2500 /\ Self.x_max = 2500) =>
               /\ -1326 * (IntDen \div XScale) <= Intervals[1][1]
               /\ Intervals[1][1] <= -1323 * (IntDen \div XScale)
        /\ (/\ Self.a = 0 /\ Self.b = -CoefScale
            /\ Self.x_min = -2000 /\ Self.x_max = 2000) =>
               /\ IntDen <= Intervals[1][1]
               /\ Intervals[1][1] <= 1002 * (IntDen \div XScale)

\* C15 as stated: one interval from within a grid step of r to x_max, and
\* an upper branch that starts at it with y approximately 0 (read
\* generously: y^2 <= 1/100).
C15_Original ==
    (Called /\ OneRootInside(Self)) =>
        /\ Len(Intervals) = 1
        /\ NearRoot(Self, Intervals[1][1])
        /\ Intervals[1][2] = AtIntDen(Self.x_max)
        /\ Len(Self.submobjects) = 1
        /\ Spans(Self, 1, Intervals[1])
        /\ Within(Lead(Self, 1)[1].y.sq, Zero, Powers(PtDen(Self.num_points)), 100)

\* a = 0, b = -1 on [-2, 2]: one interval from about 1 to 2 and a branch on
\* it whose first upper point has a small y > 0
C15_Witness ==
    /\ Called
    /\ OneRootInside(Self)
    /\ Self.a = 0 /\ Self.b = -CoefScale
    /\ Self.x_min = -2000 /\ Self.x_max = 2000
    /\ Len(Intervals) = 1
    /\ Len(Self.submobjects) = 1
    /\ Lead(Self, 1)[1].y.sign = 1
    /\ Within(Lead(Self, 1)[1].y.sq, Zero, Powers(PtDen(Self.num_points)), 100)

(***************************************************************************)
(* C18.  For the same (a, b, x_min, x_max, num_points),                    *)
(* EllipticCurveWithFill holds as many regions as EllipticCurve holds      *)
(* groups, in the same order; the first num_points points of region g are  *)
(* the upper points of group g and the last num_points are its lower       *)
(* points reversed.  (Whenever both constructors return.)                  *)
(***************************************************************************)
\* the curve of the other class built from the parameters of c
Unfilled(c) ==
    IF c.cls = "EllipticCurve" THEN c
    ELSE EllipticCurveInit(env, c.a, c.b, c.x_min, c.x_max, c.num_points,
                           c.curve_color, c.curve_stroke_width)

Filled(c) ==
    IF c.cls = "EllipticCurveWithFill" THEN c
    ELSE EllipticCurveWithFillInit(env, c.a, c.b, c.x_min, c.x_max, c.num_points,
                                   c.curve_color, DefaultFillOpacity,
                                   c.curve_stroke_width)

C18_FilledMatchesUnfilled ==
    \A i \in DOMAIN curves :
        LET ec == Unfilled(curves[i])
            wf == Filled(curves[i])
            n == curves[i].num_points
        IN ~IsException(wf) =>
             /\ Len(wf.submobjects) = Len(ec.submobjects)
             /\ \A g \in DOMAIN wf.submobjects :
                  LET ps == wf.submobjects[g].points
                  IN /\ Len(ps) = 2 * n
                     /\ \A k \in 1..n :
                          /\ ps[k] = ec.submobjects[g][1].points[k]
                          /\ ps[n + k] = ec.submobjects[g][2].points[n + 1 - k]

\* a filled curve of two regions whose unfilled counterpart has two groups,
\* each region beginning where the group's upper path begins
C18_Witness ==
    \E i \in DOMAIN curves :
        /\ curves[i].cls = "EllipticCurveWithFill"
        /\ Len(curves[i].submobjects) = 2
        /\ Len(Unfilled(curves[i]).submobjects) = 2
        /\ \A g \in 1..2 :
             curves[i].submobjects[g].points[1]
                 = Unfilled(curves[i]).submobjects[g][1].points[1]

(***************************************************************************)
(* C16.  preset_curve maps the keys it defines, 'secp256k1', 'simple' and  *)
(* 'smooth', to (0, 7), (-1, 1) and (-2, 2), and every other name, 'wide'  *)
(* and 'tall' among them, to the default (-1, 1).                          *)
(***************************************************************************)
InterfaceKeys == {"smooth", "simple", "wide", "tall", "secp256k1"}

C16_DefinedKeysElseDefault ==
    last.call = "preset_curve" =>
        last.result =
            IF last.arg = "secp256k1" THEN <<0, 7 * CoefScale>>
            ELSE IF last.arg = "smooth" THEN <<-2 * CoefScale, 2 * CoefScale>>
            ELSE <<-CoefScale, CoefScale>>

\* C16 as stated: each of the five keys of the interface has a tuple of its
\* own defined in preset_curve, and is mapped to it.
C16_Original ==
    (last.call = "preset_curve" /\ last.arg \in InterfaceKeys) =>
        /\ last.arg \in DOMAIN presets
        /\ last.result = presets[last.arg]

\* preset_curve("secp256k1") returned (0, 7)
C16_Witness ==
    /\ last.call = "preset_curve"
    /\ last.arg = "secp256k1"
    /\ last.result = <<0, 7 * CoefScale>>

(***************************************************************************)
(* C17.  On a curve without branches get_curve_paths returns the empty     *)
(* list and the point placement of degree.py and kernels.py raises no      *)
(* exception.                                                              *)
(***************************************************************************)
Placements == {"Degree.kernel_dots", "Kernels.point_samples", "Kernels.identity_pos"}

C17_Original ==
    /\ (last.call = "get_curve_paths" /\ curves[last.arg].submobjects = <<>>) =>
           last.result = <<>>
    /\ (last.call \in Placements /\ curves[last.arg].submobjects = <<>>) =>
           last.result.raised = ""

(***************************************************************************)
(* C19.  Right after EllipticCurveWithFill.set_opacity(o), whatever calls  *)
(* of set_opacity, set_fill, set_stroke and set_color came before, every   *)
(* region has stroke opacity o and fill opacity o * fill_opacity, with     *)
(* fill_opacity the constructor's value (which the object still holds as   *)
(* base_fill_opacity); so set_opacity(1) gives the constructor's fill      *)
(* opacity back.                                                           *)
(***************************************************************************)
LastOn(call, cls) ==
    /\ last.call = call
    /\ curves[last.arg[1]].cls = cls

C19_OpacityScalesConstructorFill ==
    /\ \A i \in DOMAIN curves :
         curves[i].cls = "EllipticCurveWithFill" =>
             curves[i].base_fill_opacity = DefaultFillOpacity
    /\ LastOn("set_opacity", "EllipticCurveWithFill") =>
         \A g \in DOMAIN curves[last.arg[1]].submobjects :
             LET branch == curves[last.arg[1]].submobjects[g]
                 o == last.arg[2]
             IN /\ branch.stroke_opacity = o
                /\ branch.fill_opacity = o * DefaultFillOpacity
                /\ o = OpScale => branch.fill_opacity = OpScale * DefaultFillOpacity

\* set_opacity(1) on a curve whose fill colour was changed by set_fill and
\* whose stroke width was changed by set_stroke: the fill opacity is the
\* constructor's again
C19_Witness ==
    /\ LastOn("set_opacity", "EllipticCurveWithFill")
    /\ last.arg[2] = OpScale
    /\ Len(curves[last.arg[1]].submobjects) = 2
    /\ \A g \in DOMAIN curves[last.arg[1]].submobjects :
         /\ curves[last.arg[1]].submobjects[g].fill_color = "RED"
         /\ curves[last.arg[1]].submobjects[g].stroke_width = 4
         /\ curves[last.arg[1]].submobjects[g].stroke_color = "RED"
         /\ curves[last.arg[1]].submobjects[g].fill_opacity = OpScale * DefaultFillOpacity

(***************************************************************************)
(* C20.  Every path of EllipticCurve has fill opacity 0, at construction   *)
(* and after any calls of set_opacity and set_color (and of the inherited  *)
(* set_stroke); its stroke opacity is 1 until set_opacity (or set_stroke)  *)
(* is called, then the opacity set last, and its stroke colour is the      *)
(* constructor's colour until set_color (or set_stroke) is called, then    *)
(* the colour set last.                                                    *)
(***************************************************************************)
Paths(c) == {c.submobjects[g][k] : g \in DOMAIN c.submobjects, k \in 1..2}

C20_NoFillState ==
    \A i \in DOMAIN curves :
        curves[i].cls = "EllipticCurve" =>
            \A path \in Paths(curves[i]) :
                /\ path.fill_opacity = 0
                /\ last = NoCall => (path.stroke_opacity = OpScale /\ path.stroke_color = "BLUE")
                /\ (last.call = "set_opacity" /\ last.arg[1] = i) =>
                       path.stroke_opacity = last.arg[2]
                /\ (last.call = "set_color" /\ last.arg[1] = i) =>
                       path.stroke_color = last.arg[2]

\* a step that is neither set_opacity nor set_stroke leaves every stroke
\* opacity as it was, and a step that is neither set_color nor set_stroke
\* leaves every stroke colour as it was
C20_NoFillStep ==
    \A i \in DOMAIN curves :
        (curves[i].cls = "EllipticCurve" /\ i \in DOMAIN curves') =>
            \A g \in DOMAIN curves[i].submobjects : \A k \in 1..2 :
                /\ last'.call \notin {"set_opacity", "set_stroke"} =>
                     curves'[i].submobjects[g][k].stroke_opacity
                         = curves[i].submobjects[g][k].stroke_opacity
                /\ last'.call \notin {"set_color", "set_stroke"} =>
                     curves'[i].submobjects[g][k].stroke_color
                         = curves[i].submobjects[g][k].stroke_color

C20_NeverFilled == []C20_NoFillState /\ [][C20_NoFillStep]_vars

\* set_color(RED) after set_opacity(0.5): the paths keep the opacity 0.5,
\* are red and have no fill
C20_Witness ==
    /\ last.call = "set_color"
    /\ curves[last.arg[1]].cls = "EllipticCurve"
    /\ curves[last.arg[1]].submobjects # <<>>
    /\ \A path \in Paths(curves[last.arg[1]]) :
         /\ path.stroke_opacity = 50
         /\ path.stroke_color = "RED"
         /\ path.fill_opacity = 0

(***************************************************************************)
(* C21.  _find_intervals returns one interval per maximal run of           *)
(* consecutive auxiliary samples with f >= 0 as computed, in increasing    *)
(* x: every sample with f >= 0 lies in exactly one returned interval (ends *)
(* included) and no sample with f < 0 lies in any.                         *)
(***************************************************************************)
\* the auxiliary samples of c at which f computes >= 0: where rounding
\* decides, those it leaves non-negative; elsewhere those with f >= 0
NonNegSamples(c) ==
    {i \in 0..(AuxPoints - 1) :
        IF SignRounded(c.a, c.b, c.x_min, c.x_max, i)
        THEN <<c.a, c.b, c.x_min, c.x_max, i>> \notin env.negative
        ELSE ~IsNeg(F(c.a, c.b, XTest(c.x_min, c.x_max, i), AuxPowers))}

\* sample i lies in the interval iv, ends included
SampleIn(c, i, iv) ==
    /\ iv[1] <= 2 * XTest(c.x_min, c.x_max, i)
    /\ 2 * XTest(c.x_min, c.x_max, i) <= iv[2]

C21_IntervalPerRun ==
    Called =>
        LET nonneg == NonNegSamples(Self)
            runs == Ascending({i \in nonneg : i - 1 \notin nonneg})
        IN /\ Len(Intervals) = Len(runs)
           /\ \A n \in DOMAIN Intervals : SampleIn(Self, runs[n], Intervals[n])
           /\ \A i \in 0..(AuxPoints - 1) :
                LET hits == {n \in DOMAIN Intervals : SampleIn(Self, i, Intervals[n])}
                IN IF i \in nonneg THEN Cardinality(hits) = 1 ELSE hits = {}

\* two runs of samples with f >= 0, separated by samples with f < 0, and two
\* intervals
C21_Witness ==
    /\ Called
    /\ Len(Intervals) = 2
    /\ \E i \in 1..(AuxPoints - 2) :
         /\ ~ValidAt(Self, i)
         /\ 2 * XTest(Self.x_min, Self.x_max, i) > Intervals[1][2]
         /\ 2 * XTest(Self.x_min, Self.x_max, i) < Intervals[2][1]
    /\ SamplesIn(Self, Intervals[1]) # {}
    /\ SamplesIn(Self, Intervals[2]) # {}

(***************************************************************************)
(* C22.  A call of set_opacity(o) on an icon leaves stroke opacity o.  On  *)
(* EllipticCurveIcon it leaves fill opacity o * fill_opacity when the      *)
(* constructor's fill_opacity was > 0 and the fill opacity it found when   *)
(* it was 0 (so a fill given by set_fill stays); on                        *)
(* EllipticCurveIconWithFill it always leaves o * fill_opacity.  The       *)
(* constructor's fill_opacity is kept as base_fill_opacity throughout.     *)
(***************************************************************************)
C22_IconStep ==
    \A i \in DOMAIN curves :
        /\ i \in DOMAIN curves'
        /\ curves'[i].base_fill_opacity = curves[i].base_fill_opacity
        /\ (last'.call = "set_opacity" /\ last'.arg[1] = i) =>
             /\ curves'[i].stroke_opacity = last'.arg[2]
             /\ IF curves[i].cls = "EllipticCurveIcon" /\ curves[i].base_fill_opacity = 0
                THEN curves'[i].fill_opacity = curves[i].fill_opacity
                ELSE curves'[i].fill_opacity = last'.arg[2] * curves[i].base_fill_opacity

C22_IconOpacity ==
    /\ [](last.call = "__init__" => curves[1].base_fill_opacity = last.arg[2])
    /\ [][C22_IconStep]_vars

\* an icon built with fill_opacity 0, later highlighted by
\* set_color(GREEN_C).set_fill(GREEN_C, 0.4), after set_opacity(0.15): the
\* fill is still 0.4
C22_Witness ==
    /\ last.call = "set_opacity"
    /\ last.arg[2] = 15
    /\ curves[1].cls = "EllipticCurveIcon"
    /\ curves[1].base_fill_opacity = 0
    /\ curves[1].fill_color = "GREEN_C"
    /\ curves[1].stroke_color = "GREEN_C"
    /\ curves[1].fill_opacity = 40 * OpScale
    /\ curves[1].stroke_opacity = 15

(***************************************************************************)
(* C23.  A restyling call changes no geometry: the branches, their points  *)
(* and a, b, x_min, x_max, num_points stay as they were.  set_opacity      *)
(* changes nothing but stroke and fill opacities; set_color changes        *)
(* nothing but curve_color and the stroke colours; set_fill and set_stroke *)
(* leave curve_color and base_fill_opacity alone.                          *)
(***************************************************************************)
\* the branch records of c with the given fields blanked
Blank(branch, fields) == [f \in DOMAIN branch |-> IF f \in fields THEN 0 ELSE branch[f]]

Except(c, fields) ==
    [f \in DOMAIN c \ {"curve_color", "submobjects"} |-> c[f]]
      @@ [submobjects |->
            IF c.cls = "EllipticCurve"
            THEN [g \in DOMAIN c.submobjects |->
                    [k \in DOMAIN c.submobjects[g] |-> Blank(c.submobjects[g][k], fields)]]
            ELSE [g \in DOMAIN c.submobjects |-> Blank(c.submobjects[g], fields)]]

C23_RestyleStep ==
    \A i \in DOMAIN curves :
        /\ i \in DOMAIN curves'
        /\ Geometry(curves'[i]) = Geometry(curves[i])
        /\ curves'[i].placement = curves[i].placement
        /\ SameParameters(curves'[i], curves[i])
        /\ last'.call = "set_opacity" =>
             /\ curves'[i].curve_color = curves[i].curve_color
             /\ Except(curves'[i], {"stroke_opacity", "fill_opacity"})
                  = Except(curves[i], {"stroke_opacity", "fill_opacity"})
        /\ last'.call = "set_color" =>
             Except(curves'[i], {"stroke_color"}) = Except(curves[i], {"stroke_color"})
        /\ last'.call \in {"set_fill", "set_stroke"} =>
             /\ curves'[i].curve_color = curves[i].curve_color
             /\ curves[i].cls = "EllipticCurveWithFill" =>
                  curves'[i].base_fill_opacity = curves[i].base_fill_opacity

C23_GeometryKept == [][C23_RestyleStep]_vars

\* a filled curve of two regions that has been recoloured, refilled and
\* dimmed
C23_Witness ==
    /\ curves # <<>>
    /\ curves[1].cls = "EllipticCurveWithFill"
    /\ Len(curves[1].submobjects) = 2
    /\ curves[1].curve_color = "RED"
    /\ curves[1].submobjects[1].stroke_color = "RED"
    /\ curves[1].submobjects[1].fill_color = "BLUE"
    /\ curves[1].submobjects[1].fill_opacity = 60 * OpScale
    /\ curves[1].submobjects[1].stroke_opacity = 50
    /\ Geometry(curves[1]) = Geometry(New(env, [cls |-> "EllipticCurveWithFill", a |-> -40,
                                           b |-> 10, x_min |-> -3000, x_max |-> 3000,
                                           num_points |-> 2]))

(***************************************************************************)
(* C24.  preset_curve returns a pair for every name: (0, 7) for            *)
(* 'secp256k1', (-2, 2) for 'smooth', and for 'simple' and for any name    *)
(* that is none of the three the same pair (-1, 1).                        *)
(***************************************************************************)
C24_NeverRaises ==
    last.call = "preset_curve" =>
        /\ Len(last.result) = 2
        /\ last.arg \notin {"secp256k1", "simple", "smooth"} =>
             last.result = <<-CoefScale, CoefScale>>
        /\ last.arg = "simple" => last.result = <<-CoefScale, CoefScale>>
        /\ last.arg = "secp256k1" => last.result = <<0, 7 * CoefScale>>
        /\ last.arg = "smooth" => last.result = <<-2 * CoefScale, 2 * CoefScale>>

\* preset_curve of a name it does not define returned (-1, 1)
C24_Witness ==
    /\ last.call = "preset_curve"
    /\ last.arg = "unknown"
    /\ last.result = <<-CoefScale, CoefScale>>

(***************************************************************************)
(* C25.  In MazeMetaphor both scripted walks are walks of the maze graph   *)
(* from Start (0,0) to the Public Key node (3,5): every consecutive pair   *)
(* of hard_path and of secret_path is a key of edges, so every iteration   *)
(* of either walk loop plays its move and none is skipped by the           *)
(* membership guard; each walk starts on (0,0) and, once started, the      *)
(* searcher eventually stands on (3,5); the secret path is strictly        *)
(* shorter than the hard path and plays both diagonal edges,               *)
(* (1,1)-(2,2) and (2,2)-(3,3).                                            *)
(***************************************************************************)
Last(s) == s[Len(s)]

\* every consecutive pair of path is a key of the edges built by the scene
IsWalk(path) ==
    \A n \in 1..(Len(path) - 1) : <<path[n], path[n + 1]>> \in scene.edges

InMaze(pc) == scene.name = "MazeMetaphor" /\ scene.pc = pc

C25_Inv ==
    /\ InMaze("hard") =>
         /\ IsWalk(hard_path)
         /\ hard_path[1] = start_pos /\ Last(hard_path) = end_pos
         /\ Len(scene.played) = scene.i
         /\ scene.at = <<hard_path[scene.i + 1]>>
         /\ scene.i = Len(hard_path) - 1 => scene.at = <<end_pos>>
    /\ (InMaze("secret") \/ InMaze("done")) =>
         /\ IsWalk(secret_path)
         /\ secret_path[1] = start_pos /\ Last(secret_path) = end_pos
         /\ Len(secret_path) < Len(hard_path)
         /\ Len(scene.played) = scene.i
         /\ scene.at = <<secret_path[scene.i + 1]>>
         /\ scene.i = Len(secret_path) - 1 => scene.at = <<end_pos>>
    /\ InMaze("done") =>
         \A d \in {<<<<1, 1>>, <<2, 2>>>>, <<<<2, 2>>, <<3, 3>>>>} :
            \E n \in DOMAIN scene.played : scene.played[n][1] = d

C25_HardArrived ==
    InMaze("hard") /\ scene.i = Len(hard_path) - 1 /\ scene.at = <<end_pos>>

C25_SecretArrived == InMaze("done") /\ scene.at = <<end_pos>>

C25_Walks ==
    /\ []C25_Inv
    /\ InMaze("edges") ~> C25_HardArrived
    /\ C25_HardArrived ~> C25_SecretArrived

C25_Witness ==
    /\ C25_SecretArrived
    /\ Len(scene.played) = Len(secret_path) - 1
    /\ scene.played[3][1] = <<<<1, 1>>, <<2, 2>>>>

(***************************************************************************)
(* C26.  In the graph scenes the predetermined path is a walk along        *)
(* declared edges from the designated start node to the designated end     *)
(* node.  In PathFindingHardness every consecutive pair of path_indices    *)
(* is a key of edge_dict, so the script raises nothing, the path runs      *)
(* from start_idx 0 to end_idx 12, and path_colors has an entry for every  *)
(* path edge.  In IsogenyGraphIntro every consecutive pair of search_path  *)
(* matches an entry of edge_pairs, so every iteration of the search loop   *)
(* plays its highlight, and the path runs from node 0 to node 8.  (The     *)
(* claim is about the path data: whether IsogenyGraphIntro gets as far as  *)
(* its edges is the constructor's matter, see C11.)                        *)
(***************************************************************************)
InHardness(pcs) == scene.name = "PathFindingHardness" /\ scene.pc \in pcs

InIntro(pcs) == scene.name = "IsogenyGraphIntro" /\ scene.pc \in pcs

C26_PathsAreWalks ==
    /\ scene.raised \notin {"KeyError", "IndexError"}
    /\ scene.name = "PathFindingHardness" => scene.raised = "" /\ scene.pc # "raised"
    /\ \A n \in 1..(Len(search_path) - 1) :
          \E m \in DOMAIN intro_edge_pairs :
             \/ intro_edge_pairs[m] = <<search_path[n], search_path[n + 1]>>
             \/ intro_edge_pairs[m] = <<search_path[n + 1], search_path[n]>>
    /\ InHardness({"path", "reveal", "done"}) =>
         /\ \A n \in 1..(Len(path_indices) - 1) :
               <<Min(path_indices[n], path_indices[n + 1]),
                 Max(path_indices[n], path_indices[n + 1])>> \in scene.edges
         /\ path_indices[1] = start_idx /\ start_idx = 0
         /\ Last(path_indices) = end_idx /\ end_idx = 12
         /\ Len(path_colors) >= Len(path_indices) - 1
    /\ InHardness({"path"}) => Len(scene.played) = scene.i
    /\ InHardness({"reveal", "done"}) =>
         /\ Len(scene.played) = Len(path_indices) - 1
         /\ \A n \in 1..scene.i : scene.played[n][2] = path_colors[n]
         /\ scene.at = <<path_indices[scene.i + 1]>>
    /\ InHardness({"done"}) => scene.at = <<end_idx>>
    /\ InIntro({"search", "done"}) =>
         /\ \A n \in 1..(Len(search_path) - 1) :
               \/ <<search_path[n], search_path[n + 1]>> \in scene.edges
               \/ <<search_path[n + 1], search_path[n]>> \in scene.edges
         /\ search_path[1] = intro_start /\ intro_start = 0
         /\ Last(search_path) = intro_end /\ intro_end = 8
         /\ Len(scene.played) = scene.i
         /\ scene.at = <<search_path[scene.i + 1]>>
    /\ InIntro({"done"}) => scene.at = <<intro_end>>

C26_Witness ==
    /\ InHardness({"done"})
    /\ scene.at = <<end_idx>>
    /\ scene.played[4] = <<<<7, 12>>, "PURPLE_C">>

(***************************************************************************)
(* C27.  generate_valid_spherical_coords never loops forever: a running    *)
(* call makes at most 100 sampling attempts and returns, the sample that   *)
(* passed the test or, after 100 failures, (PI/4, PI/3); whatever it       *)
(* returns, sampled or fallback, gives i = sin(phi)cos(theta),             *)
(* j = sin(phi)sin(theta), k = cos(phi) that are all in [0.1, 0.9], as the *)
(* docstring of the function says too.                                     *)
(***************************************************************************)
Returned == frame.pc = "returned"

Ijk == Coordinates(frame.theta, frame.phi)

C27_OriginalInv ==
    /\ frame.attempt <= max_attempts
    /\ Returned =>
         /\ \A n \in 1..3 :
               /\ TrigScale * TrigScale <= 10 * Ijk[n]
               /\ 10 * Ijk[n] <= 9 * TrigScale * TrigScale
         /\ frame.fallback =>
               /\ frame.attempt = max_attempts
               /\ frame.theta = PI \div 4 /\ frame.phi = PI \div 3

\* C27: every call returns within max_attempts attempts, and the i, j, k of
\* what it returns are in [0.1, 0.9]
C27_Original ==
    /\ []C27_OriginalInv
    /\ (frame.pc = "loop") ~> Returned
====
